---- MODULE Spec2Model ----
(***************************************************************************)
(* Model of the relay controller of main_refactored_patterns.ino: the      *)
(* safe relay primitives, the thermal guard, the schedule evaluation, the  *)
(* command handlers and the non-blocking control loop.                     *)
(*                                                                         *)
(* The program state is gathered in one record (St) so that the C          *)
(* functions, which run one after the other inside one handler or one      *)
(* loop stage, are operators from state record to state record.            *)
(***************************************************************************)
EXTENDS Integers, Naturals, Sequences, FiniteSets, TLC

VARIABLES
    pc,                \* position in loop(): "client", "temp", "sched", "drive"
    iter,              \* number of completed loop() iterations
    cmds,              \* number of requests served
    now,               \* millis()
    lastChangeMs,      \* [0..7 -> millis]
    currentFrame,      \* 0..255, bit i = logical state of channel i
    pins,              \* 0..255, bit i = relay i energized (digitalWrite level)
    relaysEnabled, manualOverride, alreadyOff, allOnMode,
    overheatShutdown, enclosureTemp, lastTempReadMs, lastScheduleCheck,
    currentPattern, patternSpeed, patIndex, lastPatStep,
    shuffleEnabled, patternHoldMs, patternStart, playOrder, playPos,
    statics,           \* the function-local static counters of the frame_* functions
    on_h, on_m, off_h, off_m,
    prefs,             \* the "xmas" Preferences namespace
    sunsetEnabled,     \* WiFi connected, useSunset and a weather API key present
    lastSunsetUpdate,  \* millis
    fetchAt,           \* millis of the last call of updateSunsetTime(), or Never
    fetchFailed,       \* that call returned false
    retryGap,          \* ms from the last failed call to the call after it, or Never
    stepAt,            \* millis of the last frame computed by stepPatternIfDue(), or Never
    stepGap,           \* ms between the last two frame computations, or Never
    stepMs,            \* the step interval in force at the last frame computation
    cycle,             \* the patterns started by rotation from the current play order
    lastToggle,        \* [0..7 -> millis of the last pin level change, or Never]
    toggleGap,         \* [0..7 -> ms between the last two pin level changes, or Never]
    toggleBy,          \* [0..7 -> the primitive that made the last pin level change]
    resumePending,     \* the interlock has cleared and power was not requested since
    lastOp             \* what the last action did (label and inputs)

vars == << pc, iter, cmds, now, lastChangeMs, currentFrame, pins, relaysEnabled,
           manualOverride, alreadyOff, allOnMode, overheatShutdown, enclosureTemp,
           lastTempReadMs, lastScheduleCheck, currentPattern, patternSpeed, patIndex,
           lastPatStep, shuffleEnabled, patternHoldMs, patternStart, playOrder,
           playPos, statics, on_h, on_m, off_h, off_m, prefs,
           sunsetEnabled, lastSunsetUpdate, fetchAt, fetchFailed, retryGap,
           stepAt, stepGap, stepMs, cycle,
           lastToggle, toggleGap, toggleBy, resumePending, lastOp >>

-----------------------------------------------------------------------------
(* Program constants *)

minDwellMs == 200
TEMP_READ_INTERVAL_MS == 60000
SCHEDULE_CHECK_MS == 1000
OVERHEAT_ON_C == 50
OVERHEAT_OFF_C == 45
NUM_RELAYS == 8
ALL_ON_FRAME == 255
SUNSET_PERIOD_MS == 86400000
SUNSET_RETRY_MS == 600000
SPEED_MAX_MS == 2000

\* millis() is an unsigned long counter that wraps; TLC's integers are 32-bit
\* signed, so the counter is kept modulo 2^30 (every interval of the program
\* is below it).
MillisModulus == 2^30

\* Temperatures are in tenths of a degree Celsius (the DHT22's resolution).
TempScale == 10
NaN == -9999
Never == -1
NoTime == -1
FetchFailed == -1

Channels == 0 .. (NUM_RELAYS - 1)

-----------------------------------------------------------------------------
(* Bounds of the model *)

\* loop() iterations and served requests of one run.
MaxIter == 2
MaxCommands == 2

\* Time that passes from one loop() iteration to the next.
Dts == {100, 60000}

\* dht.readTemperature(): NaN on a failed read, else tenths of a degree.
TempSamples == {NaN, 450, 480, 500}

\* getLocalTime(): unavailable, or the minute of the day.
ClockSamples == {NoTime, 1080, 1320}

-----------------------------------------------------------------------------
(* Unsigned arithmetic and bit operations *)

\* (unsigned long)(a - b)
Elapsed(a, b) == (a - b + MillisModulus) % MillisModulus

Bit(f, i) == (f \div (2^i)) % 2
IsOn(f, i) == Bit(f, i) = 1
SetBit(f, i) == IF IsOn(f, i) THEN f ELSE f + 2^i
ClearBit(f, i) == IF IsOn(f, i) THEN f - 2^i ELSE f

RECURSIVE popcount8(_)
popcount8(v) == IF v = 0 THEN 0 ELSE (v % 2) + popcount8(v \div 2)

-----------------------------------------------------------------------------
(* The program state as one record *)

St == [ now |-> now, lastChangeMs |-> lastChangeMs, currentFrame |-> currentFrame,
        pins |-> pins, relaysEnabled |-> relaysEnabled,
        manualOverride |-> manualOverride, alreadyOff |-> alreadyOff,
        allOnMode |-> allOnMode, overheatShutdown |-> overheatShutdown,
        enclosureTemp |-> enclosureTemp, lastTempReadMs |-> lastTempReadMs,
        lastScheduleCheck |-> lastScheduleCheck, currentPattern |-> currentPattern,
        patternSpeed |-> patternSpeed, patIndex |-> patIndex,
        lastPatStep |-> lastPatStep, shuffleEnabled |-> shuffleEnabled,
        patternHoldMs |-> patternHoldMs, patternStart |-> patternStart,
        playOrder |-> playOrder, playPos |-> playPos, statics |-> statics,
        on_h |-> on_h, on_m |-> on_m, off_h |-> off_h, off_m |-> off_m,
        prefs |-> prefs,
        sunsetEnabled |-> sunsetEnabled, lastSunsetUpdate |-> lastSunsetUpdate,
        fetchAt |-> fetchAt, fetchFailed |-> fetchFailed, retryGap |-> retryGap,
        stepAt |-> stepAt, stepGap |-> stepGap, stepMs |-> stepMs, cycle |-> cycle,
        lastToggle |-> lastToggle, toggleGap |-> toggleGap, toggleBy |-> toggleBy,
        puts |-> << >> ]

Commit(s) ==
    /\ now' = s.now
    /\ lastChangeMs' = s.lastChangeMs
    /\ currentFrame' = s.currentFrame
    /\ pins' = s.pins
    /\ relaysEnabled' = s.relaysEnabled
    /\ manualOverride' = s.manualOverride
    /\ alreadyOff' = s.alreadyOff
    /\ allOnMode' = s.allOnMode
    /\ overheatShutdown' = s.overheatShutdown
    /\ enclosureTemp' = s.enclosureTemp
    /\ lastTempReadMs' = s.lastTempReadMs
    /\ lastScheduleCheck' = s.lastScheduleCheck
    /\ currentPattern' = s.currentPattern
    /\ patternSpeed' = s.patternSpeed
    /\ patIndex' = s.patIndex
    /\ lastPatStep' = s.lastPatStep
    /\ shuffleEnabled' = s.shuffleEnabled
    /\ patternHoldMs' = s.patternHoldMs
    /\ patternStart' = s.patternStart
    /\ playOrder' = s.playOrder
    /\ playPos' = s.playPos
    /\ statics' = s.statics
    /\ on_h' = s.on_h
    /\ on_m' = s.on_m
    /\ off_h' = s.off_h
    /\ off_m' = s.off_m
    /\ prefs' = s.prefs
    /\ sunsetEnabled' = s.sunsetEnabled
    /\ lastSunsetUpdate' = s.lastSunsetUpdate
    /\ fetchAt' = s.fetchAt
    /\ fetchFailed' = s.fetchFailed
    /\ retryGap' = s.retryGap
    /\ stepAt' = s.stepAt
    /\ stepGap' = s.stepGap
    /\ stepMs' = s.stepMs
    /\ cycle' = s.cycle
    /\ lastToggle' = s.lastToggle
    /\ toggleGap' = s.toggleGap
    /\ toggleBy' = s.toggleBy

-----------------------------------------------------------------------------
(* Preferences *)

\* prefs.putInt / prefs.putBool of value v under key.  The state record keeps,
\* in puts, the writes issued since the record was taken from the variables:
\* the key, and whether the value written equals the value already stored.
putPref(s, key, v) ==
    [s EXCEPT !.prefs[key] = v,
              !.puts = Append(@, [key |-> key, same |-> (s.prefs[key] = v)])]

-----------------------------------------------------------------------------
(* Relay primitives *)

\* digitalWrite of relay idx (RELAY_ACTIVE_LOW = false: level HIGH = energized).
\* A write that changes the pin level is a physical toggle; its time, the gap
\* to the previous toggle and the calling primitive are recorded.
writeRelayDirect(s, idx, on, by) ==
    IF idx < 0 \/ idx >= NUM_RELAYS THEN s
    ELSE IF IsOn(s.pins, idx) = on THEN s
    ELSE [s EXCEPT
            !.pins = IF on THEN SetBit(@, idx) ELSE ClearBit(@, idx),
            !.toggleGap[idx] = IF s.lastToggle[idx] = Never THEN Never
                               ELSE Elapsed(s.now, s.lastToggle[idx]),
            !.lastToggle[idx] = s.now,
            !.toggleBy[idx] = by]

\* The channel state after initRelaysPins() run at millis() = t0.
initLastChangeMs(t0) ==
    [i \in Channels |-> IF t0 >= minDwellMs THEN t0 - minDwellMs ELSE 0]

\* Mutant: the dwell check is missing.
setRelaySafe_NoDwell(s, idx, wantOnArg) ==
    IF idx < 0 \/ idx >= NUM_RELAYS THEN s
    ELSE
      LET wantOn == wantOnArg /\ ~s.overheatShutdown /\ s.relaysEnabled
          isOn == IsOn(s.currentFrame, idx)
      IN  IF isOn = wantOn THEN s
          ELSE LET w == writeRelayDirect(s, idx, wantOn, "setRelaySafe")
               IN [w EXCEPT
                     !.lastChangeMs[idx] = s.now,
                     !.currentFrame = IF wantOn THEN SetBit(@, idx)
                                      ELSE ClearBit(@, idx)]

\* Mutant: a request suppressed by dwell still stamps the channel.
setRelaySafe_StampsSuppressed(s, idx, wantOnArg) ==
    IF idx < 0 \/ idx >= NUM_RELAYS THEN s
    ELSE
      LET wantOn == wantOnArg /\ ~s.overheatShutdown /\ s.relaysEnabled
          isOn == IsOn(s.currentFrame, idx)
      IN  IF isOn = wantOn THEN s
          ELSE IF Elapsed(s.now, s.lastChangeMs[idx]) < minDwellMs
               THEN [s EXCEPT !.lastChangeMs[idx] = s.now]
          ELSE LET w == writeRelayDirect(s, idx, wantOn, "setRelaySafe")
               IN [w EXCEPT
                     !.lastChangeMs[idx] = s.now,
                     !.currentFrame = IF wantOn THEN SetBit(@, idx)
                                      ELSE ClearBit(@, idx)]

\* The value setRelaySafe returns: -2 index out of range, 0 nothing to do,
\* -1 too soon, 1 applied.
setRelaySafeResult(s, idx, wantOnArg) ==
    IF idx < 0 \/ idx >= NUM_RELAYS THEN -2
    ELSE
      LET wantOn == wantOnArg /\ ~s.overheatShutdown /\ s.relaysEnabled
          isOn == IsOn(s.currentFrame, idx)
      IN  IF isOn = wantOn THEN 0
          ELSE IF Elapsed(s.now, s.lastChangeMs[idx]) < minDwellMs THEN -1
          ELSE 1

setRelaySafe(s, idx, wantOnArg) ==
    IF idx < 0 \/ idx >= NUM_RELAYS THEN s
    ELSE
      LET wantOn == wantOnArg /\ ~s.overheatShutdown /\ s.relaysEnabled
          isOn == IsOn(s.currentFrame, idx)
      IN  IF isOn = wantOn THEN s
          ELSE IF Elapsed(s.now, s.lastChangeMs[idx]) < minDwellMs THEN s
          ELSE LET w == writeRelayDirect(s, idx, wantOn, "setRelaySafe")
               IN [w EXCEPT
                     !.lastChangeMs[idx] = s.now,
                     !.currentFrame = IF wantOn THEN SetBit(@, idx)
                                      ELSE ClearBit(@, idx)]

RECURSIVE applyFrameFrom(_, _, _)
applyFrameFrom(s, frame, i) ==
    IF i >= NUM_RELAYS THEN s
    ELSE applyFrameFrom(setRelaySafe(s, i, IsOn(frame, i)), frame, i + 1)

applyFrame(s, frame) == applyFrameFrom(s, frame, 0)

RECURSIVE forceAllRelaysOffFrom(_, _)
forceAllRelaysOffFrom(s, i) ==
    IF i >= NUM_RELAYS THEN s
    ELSE LET w == writeRelayDirect(s, i, FALSE, "forceAllRelaysOff")
         IN forceAllRelaysOffFrom(
                [w EXCEPT !.currentFrame = ClearBit(@, i),
                          !.lastChangeMs[i] = s.now], i + 1)

\* Mutant: the forced switch-off goes through the safe setter and so obeys dwell.
forceAllRelaysOff_ObeysDwell(s) == applyFrame(s, 0)

\* Mutant: the forced switch-off leaves the channels' timestamps as they are.
forceAllRelaysOff_KeepsTimestamps(s) ==
    [forceAllRelaysOffFrom(s, 0) EXCEPT !.lastChangeMs = s.lastChangeMs]

forceAllRelaysOff(s) == forceAllRelaysOffFrom(s, 0)

-----------------------------------------------------------------------------
(* Temperature protection *)

\* Mutant: no hysteresis, the interlock clears as soon as a sample is below the
\* trip threshold.
checkTemperatureAndProtect_NoHysteresis(s, t) ==
    IF Elapsed(s.now, s.lastTempReadMs) < TEMP_READ_INTERVAL_MS THEN s
    ELSE
      LET s1 == [s EXCEPT !.lastTempReadMs = s.now]
      IN  IF t = NaN THEN s1
          ELSE
            LET s2 == [s1 EXCEPT !.enclosureTemp = t]
            IN  IF ~s2.overheatShutdown /\ t >= OVERHEAT_ON_C * TempScale
                THEN [forceAllRelaysOff([s2 EXCEPT !.overheatShutdown = TRUE])
                        EXCEPT !.relaysEnabled = FALSE]
                ELSE IF s2.overheatShutdown /\ t < OVERHEAT_ON_C * TempScale
                THEN [s2 EXCEPT !.overheatShutdown = FALSE]
                ELSE s2

\* Mutant: the trip latches the interlock but leaves the channels as they are.
checkTemperatureAndProtect_TripKeepsChannels(s, t) ==
    IF Elapsed(s.now, s.lastTempReadMs) < TEMP_READ_INTERVAL_MS THEN s
    ELSE
      LET s1 == [s EXCEPT !.lastTempReadMs = s.now]
      IN  IF t = NaN THEN s1
          ELSE
            LET s2 == [s1 EXCEPT !.enclosureTemp = t]
            IN  IF ~s2.overheatShutdown /\ t >= OVERHEAT_ON_C * TempScale
                THEN [s2 EXCEPT !.overheatShutdown = TRUE,
                                !.relaysEnabled = FALSE]
                ELSE IF s2.overheatShutdown /\ t <= OVERHEAT_OFF_C * TempScale
                THEN [s2 EXCEPT !.overheatShutdown = FALSE]
                ELSE s2

\* Mutant: a failed read is used like a reading.
checkTemperatureAndProtect_UsesFailedRead(s, t) ==
    IF Elapsed(s.now, s.lastTempReadMs) < TEMP_READ_INTERVAL_MS THEN s
    ELSE
      LET s1 == [s EXCEPT !.lastTempReadMs = s.now]
          s2 == [s1 EXCEPT !.enclosureTemp = t]
      IN  IF ~s2.overheatShutdown /\ t >= OVERHEAT_ON_C * TempScale
          THEN [forceAllRelaysOff([s2 EXCEPT !.overheatShutdown = TRUE])
                  EXCEPT !.relaysEnabled = FALSE]
          ELSE IF s2.overheatShutdown /\ t <= OVERHEAT_OFF_C * TempScale
          THEN [s2 EXCEPT !.overheatShutdown = FALSE]
          ELSE s2

\* t is what dht.readTemperature() returns: NaN or tenths of a degree.
checkTemperatureAndProtect(s, t) ==
    IF Elapsed(s.now, s.lastTempReadMs) < TEMP_READ_INTERVAL_MS THEN s
    ELSE
      LET s1 == [s EXCEPT !.lastTempReadMs = s.now]
      IN  IF t = NaN THEN s1
          ELSE
            LET s2 == [s1 EXCEPT !.enclosureTemp = t]
            IN  IF ~s2.overheatShutdown /\ t >= OVERHEAT_ON_C * TempScale
                THEN [forceAllRelaysOff([s2 EXCEPT !.overheatShutdown = TRUE])
                        EXCEPT !.relaysEnabled = FALSE]
                ELSE IF s2.overheatShutdown /\ t <= OVERHEAT_OFF_C * TempScale
                THEN [s2 EXCEPT !.overheatShutdown = FALSE]
                ELSE s2

TempDue(s) == Elapsed(s.now, s.lastTempReadMs) >= TEMP_READ_INTERVAL_MS

-----------------------------------------------------------------------------
(* Sunset fetch *)

\* fetch is the outcome of the OpenWeather request: FetchFailed (any of the
\* "return false" exits), or the local minute of the day of sunset + offset.
\* The call, its outcome and the time since a preceding failed call are
\* recorded.
updateSunsetTime(s, fetch) ==
    LET s1 == [s EXCEPT !.retryGap = IF s.fetchFailed
                                     THEN Elapsed(s.now, s.fetchAt) ELSE Never,
                        !.fetchAt = s.now,
                        !.fetchFailed = (fetch = FetchFailed)]
    IN  IF fetch = FetchFailed THEN s1
        ELSE [s1 EXCEPT !.on_h = fetch \div 60, !.on_m = fetch % 60,
                        !.lastSunsetUpdate = s.now]

SunsetDue(s) ==
    s.sunsetEnabled /\ Elapsed(s.now, s.lastSunsetUpdate) > SUNSET_PERIOD_MS

\* The "Sunset update daily" block of loop().
sunsetCheck(s, fetch) ==
    IF ~s.sunsetEnabled THEN s
    ELSE IF Elapsed(s.now, s.lastSunsetUpdate) <= SUNSET_PERIOD_MS THEN s
    ELSE LET s1 == updateSunsetTime(s, fetch)
         IN  IF fetch # FetchFailed
             THEN [s1 EXCEPT !.lastSunsetUpdate = s.now]
             ELSE [s1 EXCEPT !.lastSunsetUpdate =
                      (s.now + MillisModulus - SUNSET_PERIOD_MS + SUNSET_RETRY_MS)
                          % MillisModulus]

\* The fetch of setup(): made when the station is connected, the time is
\* known and a weather key is stored (attempt); otherwise no call is made.
setupSunset(s, attempt, fetch) ==
    IF attempt
    THEN LET s1 == updateSunsetTime(s, fetch)
         IN  IF fetch # FetchFailed
             THEN [s1 EXCEPT !.lastSunsetUpdate = s.now]
             ELSE [s1 EXCEPT !.lastSunsetUpdate = 0]
    ELSE [s EXCEPT !.lastSunsetUpdate = 0]

-----------------------------------------------------------------------------
(* Scheduling *)

\* Mutant: the window is closed at its OFF end.
computeShouldBeOn_ClosedWindow(s, clock) ==
    IF clock = NoTime THEN s.relaysEnabled
    ELSE
      LET now_min == clock
          on_min == s.on_h * 60 + s.on_m
          off_min == s.off_h * 60 + s.off_m
      IN  IF on_min <= off_min THEN (now_min >= on_min /\ now_min <= off_min)
          ELSE (now_min >= on_min \/ now_min <= off_min)

\* Mutant: without wall-clock time the schedule says OFF.
computeShouldBeOn_NoTimeOff(s, clock) ==
    IF clock = NoTime THEN FALSE
    ELSE
      LET now_min == clock
          on_min == s.on_h * 60 + s.on_m
          off_min == s.off_h * 60 + s.off_m
      IN  IF on_min <= off_min THEN (now_min >= on_min /\ now_min < off_min)
          ELSE (now_min >= on_min \/ now_min < off_min)

\* clock is what getLocalTime() gives: NoTime, or tm_hour * 60 + tm_min.
computeShouldBeOn(s, clock) ==
    IF clock = NoTime THEN s.relaysEnabled
    ELSE
      LET now_min == clock
          on_min == s.on_h * 60 + s.on_m
          off_min == s.off_h * 60 + s.off_m
      IN  IF on_min <= off_min THEN (now_min >= on_min /\ now_min < off_min)
          ELSE (now_min >= on_min \/ now_min < off_min)

\* Mutant: the schedule's switch-off goes through the safe setter.
scheduleCheck_OffObeysDwell(s, clock) ==
    IF ~(~s.manualOverride /\ Elapsed(s.now, s.lastScheduleCheck) > SCHEDULE_CHECK_MS)
    THEN s
    ELSE
      LET s1 == [s EXCEPT !.lastScheduleCheck = s.now]
          shouldBeOn == computeShouldBeOn(s1, clock)
      IN  IF shouldBeOn = s1.relaysEnabled THEN s1
          ELSE
            LET s2 == [s1 EXCEPT !.relaysEnabled = shouldBeOn,
                                 !.prefs.relaysEnabled = shouldBeOn,
                                 !.alreadyOff = ~shouldBeOn]
            IN  IF s2.relaysEnabled
                THEN [s2 EXCEPT !.patternStart = s.now]
                ELSE applyFrame([s2 EXCEPT !.allOnMode = FALSE], 0)

\* Mutant: the schedule switches power off only.
scheduleCheck_OnlyOff(s, clock) ==
    IF ~(~s.manualOverride /\ Elapsed(s.now, s.lastScheduleCheck) > SCHEDULE_CHECK_MS)
    THEN s
    ELSE
      LET s1 == [s EXCEPT !.lastScheduleCheck = s.now]
          shouldBeOn == computeShouldBeOn(s1, clock)
      IN  IF shouldBeOn = s1.relaysEnabled \/ shouldBeOn THEN s1
          ELSE
            LET s2 == [s1 EXCEPT !.relaysEnabled = shouldBeOn,
                                 !.prefs.relaysEnabled = shouldBeOn,
                                 !.alreadyOff = ~shouldBeOn]
            IN  forceAllRelaysOff([s2 EXCEPT !.allOnMode = FALSE])

\* Mutant: the schedule is also evaluated in MANUAL mode.
ScheduleDue_IgnoresManual(s) ==
    Elapsed(s.now, s.lastScheduleCheck) > SCHEDULE_CHECK_MS

ScheduleDue(s) ==
    ~s.manualOverride /\ Elapsed(s.now, s.lastScheduleCheck) > SCHEDULE_CHECK_MS

\* The "Schedule check every second (AUTO)" block of loop().
scheduleCheck(s, clock) ==
    IF ~ScheduleDue(s) THEN s
    ELSE
      LET s1 == [s EXCEPT !.lastScheduleCheck = s.now]
          shouldBeOn == computeShouldBeOn(s1, clock)
      IN  IF shouldBeOn = s1.relaysEnabled THEN s1
          ELSE
            LET s2 == [putPref(s1, "relaysEnabled", shouldBeOn)
                         EXCEPT !.relaysEnabled = shouldBeOn,
                                !.alreadyOff = ~shouldBeOn]
            IN  IF s2.relaysEnabled
                THEN [s2 EXCEPT !.patternStart = s.now]
                ELSE forceAllRelaysOff([s2 EXCEPT !.allOnMode = FALSE])

-----------------------------------------------------------------------------
(* Pattern frames.  Every frame_* function of the program keeps its counters *)
(* in function-local statics; here they are the fields of the record st, and *)
(* each operator returns the frame together with the updated statics.        *)

Patterns == { "CHASE", "WAVE", "RANDOM", "ALT_EVEN_ODD", "BOUNCE", "CHASE_GAP",
              "PAIR_PINGPONG", "BLOCK_WIPE", "OVERLAP_WAVE", "SPARKLE_SPARSE",
              "RANDOM_BURSTS", "HALF_SWAP", "BINARY_COUNT" }

playlist == << "ALT_EVEN_ODD", "BOUNCE", "BLOCK_WIPE", "OVERLAP_WAVE", "HALF_SWAP",
               "CHASE", "CHASE_GAP", "PAIR_PINGPONG", "BINARY_COUNT",
               "RANDOM_BURSTS", "SPARKLE_SPARSE" >>

playlistLen == Len(playlist)

InitStatics ==
    [ evenOn |-> FALSE, bounceIdx |-> 0, bounceDir |-> 1, gapPos |-> 0,
      pairIdx |-> 0, pairDir |-> 1, width |-> 0, k |-> 0, sparkleMask |-> 0,
      burstMask |-> 0, burst |-> 0, leftOn |-> FALSE, count |-> 0,
      filling |-> TRUE, level |-> 0 ]

Min(a, b) == IF a < b THEN a ELSE b

\* (1 << n) - 1 for n in 0..8
LowMask(n) == 2^n - 1

frame_ALT_EVEN_ODD(st) ==
    LET evenOn == ~st.evenOn
    IN [frame |-> IF evenOn THEN 85 ELSE 170, st |-> [st EXCEPT !.evenOn = evenOn]]

frame_BOUNCE(st) ==
    LET mask == 2^st.bounceIdx
        idx == st.bounceIdx + st.bounceDir
    IN [frame |-> mask,
        st |-> IF idx >= 7 THEN [st EXCEPT !.bounceIdx = 7, !.bounceDir = -1]
               ELSE IF idx <= 0 THEN [st EXCEPT !.bounceIdx = 0, !.bounceDir = 1]
               ELSE [st EXCEPT !.bounceIdx = idx]]

frame_CHASE_GAP(st) ==
    LET gapLen == 1
    IN [frame |-> 2^st.gapPos, st |-> [st EXCEPT !.gapPos = (@ + gapLen) % 8]]

\* Mutant: the pair turns at index 7, as frame_BOUNCE's single bit does.
frame_PAIR_PINGPONG_TurnsAt7(st) ==
    LET a == st.pairIdx
        b == Min(st.pairIdx + 1, 7)
        mask == SetBit(2^a, b)
        idx == st.pairIdx + st.pairDir
    IN [frame |-> mask,
        st |-> IF idx >= 7 THEN [st EXCEPT !.pairIdx = 7, !.pairDir = -1]
               ELSE IF idx <= 0 THEN [st EXCEPT !.pairIdx = 0, !.pairDir = 1]
               ELSE [st EXCEPT !.pairIdx = idx]]

frame_PAIR_PINGPONG(st) ==
    LET a == st.pairIdx
        b == Min(st.pairIdx + 1, 7)
        mask == SetBit(2^a, b)
        idx == st.pairIdx + st.pairDir
    IN [frame |-> mask,
        st |-> IF idx >= 6 THEN [st EXCEPT !.pairIdx = 6, !.pairDir = -1]
               ELSE IF idx <= 0 THEN [st EXCEPT !.pairIdx = 0, !.pairDir = 1]
               ELSE [st EXCEPT !.pairIdx = idx]]

frame_BLOCK_WIPE(st) ==
    LET width == (st.width + 1) % 9
    IN [frame |-> IF width = 0 THEN 0 ELSE LowMask(width),
        st |-> [st EXCEPT !.width = width]]

frame_OVERLAP_WAVE(st) ==
    LET k == st.k
        mask == IF k <= 8 THEN (IF k = 0 THEN 0 ELSE LowMask(k))
                ELSE 255 - LowMask(k - 8)
    IN [frame |-> mask, st |-> [st EXCEPT !.k = (k + 1) % 17]]

\* The strip loop: clears set bits from bit 0 upwards while more than 3 are set.
RECURSIVE StripTo3(_, _)
StripTo3(mask, i) ==
    IF popcount8(mask) <= 3 THEN mask
    ELSE IF i >= 8 THEN StripTo3(mask, 0)
    ELSE StripTo3(ClearBit(mask, i), i + 1)

ToggleBit(f, i) == IF IsOn(f, i) THEN f - 2^i ELSE f + 2^i

\* Mutant: the strip loop is missing.
frame_SPARKLE_SPARSE_NoStrip(st, rnd) ==
    LET toggled == ToggleBit(ToggleBit(st.sparkleMask, rnd.bit1), rnd.bit2)
    IN [frame |-> toggled, st |-> [st EXCEPT !.sparkleMask = toggled]]

\* rnd.bit1, rnd.bit2: the two random(0,8) draws.
frame_SPARKLE_SPARSE(st, rnd) ==
    LET toggled == ToggleBit(ToggleBit(st.sparkleMask, rnd.bit1), rnd.bit2)
        mask == StripTo3(toggled, 0)
    IN [frame |-> mask, st |-> [st EXCEPT !.sparkleMask = mask]]

\* The fill loop: ORs in random bits, taken in order from draws, until count
\* bits are set.
RECURSIVE FillBits(_, _, _)
FillBits(mask, count, draws) ==
    IF popcount8(mask) >= count \/ draws = << >> THEN mask
    ELSE FillBits(SetBit(mask, Head(draws)), count, Tail(draws))

\* rnd.start: random(0,10) == 0; rnd.count: 2 + random(0,4);
\* rnd.fill: the random(0,8) draws of the fill loop; rnd.burst: 3 + random(0,4).
frame_RANDOM_BURSTS(st, rnd) ==
    IF st.burst > 0
    THEN [frame |-> st.burstMask, st |-> [st EXCEPT !.burst = @ - 1]]
    ELSE IF rnd.start
    THEN LET mask == FillBits(0, rnd.count, rnd.fill)
         IN [frame |-> mask,
             st |-> [st EXCEPT !.burstMask = mask, !.burst = rnd.burst]]
    ELSE [frame |-> 0, st |-> [st EXCEPT !.burstMask = 0]]

frame_HALF_SWAP(st) ==
    LET leftOn == ~st.leftOn
    IN [frame |-> IF leftOn THEN 15 ELSE 240, st |-> [st EXCEPT !.leftOn = leftOn]]

frame_BINARY_COUNT(st) ==
    [frame |-> st.count, st |-> [st EXCEPT !.count = (@ + 1) % 256]]

\* case WAVE of stepPatternIfDue (statics filling, level)
frame_WAVE(st) ==
    LET level == st.level
        frame == IF level = 0 THEN 0 ELSE LowMask(level + 1)
    IN  IF st.filling
        THEN [frame |-> frame,
              st |-> IF level + 1 >= 7 THEN [st EXCEPT !.level = 7, !.filling = FALSE]
                     ELSE [st EXCEPT !.level = level + 1]]
        ELSE [frame |-> frame,
              st |-> IF level = 0 THEN [st EXCEPT !.level = 0, !.filling = TRUE]
                     ELSE [st EXCEPT !.level = level - 1]]

\* The switch of stepPatternIfDue: the frame of the current pattern, with the
\* new patIndex and statics.
patternFrame(s, rnd) ==
    LET p == s.currentPattern
        st == s.statics
        keep(r) == [frame |-> r.frame, st |-> r.st, patIndex |-> s.patIndex]
    IN  CASE p = "CHASE" -> [frame |-> 2^s.patIndex, st |-> st,
                             patIndex |-> (s.patIndex + 1) % 8]
          [] p = "WAVE" -> keep(frame_WAVE(st))
          [] p = "RANDOM" -> [frame |-> 2^rnd.bit1, st |-> st, patIndex |-> s.patIndex]
          [] p = "ALT_EVEN_ODD" -> keep(frame_ALT_EVEN_ODD(st))
          [] p = "BOUNCE" -> keep(frame_BOUNCE(st))
          [] p = "CHASE_GAP" -> keep(frame_CHASE_GAP(st))
          [] p = "PAIR_PINGPONG" -> keep(frame_PAIR_PINGPONG(st))
          [] p = "BLOCK_WIPE" -> keep(frame_BLOCK_WIPE(st))
          [] p = "OVERLAP_WAVE" -> keep(frame_OVERLAP_WAVE(st))
          [] p = "SPARKLE_SPARSE" -> keep(frame_SPARKLE_SPARSE(st, rnd))
          [] p = "RANDOM_BURSTS" -> keep(frame_RANDOM_BURSTS(st, rnd))
          [] p = "HALF_SWAP" -> keep(frame_HALF_SWAP(st))
          [] p = "BINARY_COUNT" -> keep(frame_BINARY_COUNT(st))
          [] OTHER -> [frame |-> 0, st |-> st, patIndex |-> s.patIndex]

StepMs(s) == IF s.patternSpeed < minDwellMs THEN minDwellMs ELSE s.patternSpeed

StepDue(s) == ~s.allOnMode /\ Elapsed(s.now, s.lastPatStep) >= StepMs(s)

\* Mutant: the step computes its frame and does not apply it.
stepPatternIfDue_NoApply(s, rnd) ==
    IF s.allOnMode THEN s
    ELSE IF Elapsed(s.now, s.lastPatStep) < StepMs(s) THEN s
    ELSE LET r == patternFrame(s, rnd)
         IN [s EXCEPT !.lastPatStep = s.now, !.patIndex = r.patIndex,
                      !.statics = r.st,
                      !.stepGap = IF s.stepAt = Never THEN Never
                                  ELSE Elapsed(s.now, s.stepAt),
                      !.stepAt = s.now,
                      !.stepMs = StepMs(s)]

stepPatternIfDue(s, rnd) ==
    IF s.allOnMode THEN s
    ELSE IF Elapsed(s.now, s.lastPatStep) < StepMs(s) THEN s
    ELSE LET r == patternFrame(s, rnd)
         IN applyFrame([s EXCEPT !.lastPatStep = s.now, !.patIndex = r.patIndex,
                                 !.statics = r.st,
                                 !.stepGap = IF s.stepAt = Never THEN Never
                                             ELSE Elapsed(s.now, s.stepAt),
                                 !.stepAt = s.now,
                                 !.stepMs = StepMs(s)], r.frame)

-----------------------------------------------------------------------------
(* Playlist / rotation *)

\* playOrder[0 .. playlistLen-1]; the program's array has 16 entries, of which
\* only these are ever read.
SequentialOrder == [i \in 0 .. (playlistLen - 1) |-> i]

buildSequentialOrder(s) ==
    [s EXCEPT !.playOrder = SequentialOrder, !.playPos = 0, !.cycle = << >>]

\* Fisher-Yates; draws[i] is the value of random(0, i + 1) at step i.
RECURSIVE ShuffleFrom(_, _, _)
ShuffleFrom(order, draws, i) ==
    IF i <= 0 THEN order
    ELSE LET j == draws[i]
         IN ShuffleFrom([order EXCEPT ![i] = order[j], ![j] = order[i]], draws, i - 1)

\* Mutant: every slot takes the drawn entry, nothing is swapped.
buildShuffledOrder_NoSwap(s, draws) ==
    [s EXCEPT !.playOrder = [i \in 0 .. (playlistLen - 1) |->
                                IF i = 0 THEN 0 ELSE SequentialOrder[draws[i]]],
              !.playPos = 0,
              !.cycle = << >>]

buildShuffledOrder(s, draws) ==
    [s EXCEPT !.playOrder = ShuffleFrom(SequentialOrder, draws, playlistLen - 1),
              !.playPos = 0,
              !.cycle = << >>]

startPattern(s, p) ==
    [putPref(s, "pattern", p)
       EXCEPT !.currentPattern = p,
              !.patIndex = 0,
              !.lastPatStep = 0,
              !.patternStart = s.now]

AdvanceDue(s) ==
    /\ s.relaysEnabled /\ ~s.allOnMode /\ s.shuffleEnabled
    /\ Elapsed(s.now, s.patternStart) >= s.patternHoldMs

\* Mutant: the rotation does not look at the shuffle flag.
maybeAdvancePattern_IgnoresShuffle(s, draws) ==
    IF ~s.relaysEnabled THEN s
    ELSE IF s.allOnMode THEN s
    ELSE IF Elapsed(s.now, s.patternStart) < s.patternHoldMs THEN s
    ELSE LET s1 == IF s.playPos >= playlistLen THEN buildShuffledOrder(s, draws) ELSE s
             next == playlist[s1.playOrder[s1.playPos] + 1]
         IN startPattern([s1 EXCEPT !.playPos = @ + 1,
                                    !.cycle = Append(@, next)], next)

maybeAdvancePattern(s, draws) ==
    IF ~s.relaysEnabled THEN s
    ELSE IF s.allOnMode THEN s
    ELSE IF ~s.shuffleEnabled THEN s
    ELSE IF Elapsed(s.now, s.patternStart) < s.patternHoldMs THEN s
    ELSE LET s1 == IF s.playPos >= playlistLen THEN buildShuffledOrder(s, draws) ELSE s
             next == playlist[s1.playOrder[s1.playPos] + 1]
         IN startPattern([s1 EXCEPT !.playPos = @ + 1,
                                    !.cycle = Append(@, next)], next)

-----------------------------------------------------------------------------
(* Control handlers (the web routes /on, /off, /auto, /allon, /setpattern) *)

\* Mutant: manualOn also applies the all-on frame.
handleOn_AppliesFrame(s) ==
    LET s1 == [s EXCEPT !.relaysEnabled = TRUE,
                        !.manualOverride = TRUE,
                        !.alreadyOff = FALSE]
    IN  applyFrame(putPref(putPref(s1, "manualOverride", TRUE),
                           "relaysEnabled", TRUE), ALL_ON_FRAME)

handleOn(s) ==
    LET s1 == [s EXCEPT !.relaysEnabled = TRUE,
                        !.manualOverride = TRUE,
                        !.alreadyOff = FALSE]
    IN  putPref(putPref(s1, "manualOverride", TRUE), "relaysEnabled", TRUE)

\* Mutant: manualOff does not force the channels off.
handleOff_NoForce(s) ==
    [s EXCEPT !.allOnMode = FALSE,
              !.relaysEnabled = FALSE,
              !.manualOverride = TRUE,
              !.prefs.manualOverride = TRUE,
              !.prefs.relaysEnabled = FALSE,
              !.alreadyOff = TRUE]

handleOff(s) ==
    LET s1 == [s EXCEPT !.allOnMode = FALSE,
                        !.relaysEnabled = FALSE,
                        !.manualOverride = TRUE]
        s2 == putPref(putPref(s1, "manualOverride", TRUE), "relaysEnabled", FALSE)
    IN [forceAllRelaysOff(s2) EXCEPT !.alreadyOff = TRUE]

handleAuto(s) ==
    putPref([s EXCEPT !.manualOverride = FALSE], "manualOverride", FALSE)

\* Mutant: cancelling the hold also switches power off.
handleAllOn_CancelPowersOff(s) ==
    IF s.allOnMode
    THEN [s EXCEPT !.allOnMode = FALSE, !.relaysEnabled = FALSE,
                   !.patternStart = s.now]
    ELSE IF s.overheatShutdown THEN s
    ELSE LET s1 == [s EXCEPT !.relaysEnabled = TRUE,
                             !.manualOverride = TRUE,
                             !.prefs.manualOverride = TRUE,
                             !.prefs.relaysEnabled = TRUE,
                             !.allOnMode = TRUE]
         IN applyFrame(s1, ALL_ON_FRAME)

\* Mutant: the overheat refusal is missing.
handleAllOn_IgnoresOverheat(s) ==
    IF s.allOnMode
    THEN [s EXCEPT !.allOnMode = FALSE, !.patternStart = s.now]
    ELSE LET s1 == [s EXCEPT !.relaysEnabled = TRUE,
                             !.manualOverride = TRUE,
                             !.prefs.manualOverride = TRUE,
                             !.prefs.relaysEnabled = TRUE,
                             !.allOnMode = TRUE]
         IN applyFrame(s1, ALL_ON_FRAME)

handleAllOn(s) ==
    IF s.allOnMode
    THEN [s EXCEPT !.allOnMode = FALSE, !.patternStart = s.now]
    ELSE IF s.overheatShutdown THEN s
    ELSE LET s1 == [s EXCEPT !.relaysEnabled = TRUE,
                             !.manualOverride = TRUE]
             s2 == putPref(putPref(s1, "manualOverride", TRUE),
                           "relaysEnabled", TRUE)
         IN applyFrame([s2 EXCEPT !.allOnMode = TRUE], ALL_ON_FRAME)

\* String::toUpperCase on the request's name argument.
UpperCase(name) ==
    CASE name = "wave" -> "WAVE"
      [] name = "Bounce" -> "BOUNCE"
      [] name = "bogus" -> "BOGUS"
      [] OTHER -> name

\* Mutant: selecting a pattern leaves the All-ON hold as it is.
handlePattern_KeepsHold(s, nameArg) ==
    LET name == (CASE nameArg = "wave" -> "WAVE" [] OTHER -> nameArg)
        next == IF name \in Patterns THEN name ELSE s.currentPattern
    IN  [s EXCEPT !.currentPattern = next,
                  !.prefs.pattern = next,
                  !.patIndex = 0,
                  !.lastPatStep = 0,
                  !.patternStart = s.now]

handlePattern(s, nameArg) ==
    LET s1 == IF s.allOnMode THEN [s EXCEPT !.allOnMode = FALSE] ELSE s
        name == UpperCase(nameArg)
        next == IF name \in Patterns THEN name ELSE s1.currentPattern
    IN startPattern([s1 EXCEPT !.currentPattern = next], next)

-----------------------------------------------------------------------------
(* Settings handlers (/setspeed, /setshuffle) and /status.json *)

\* String::toInt on the request's val argument: the leading integer, 0 when
\* there is none.
toInt(str) ==
    CASE str = "50" -> 50
      [] str = "199" -> 199
      [] str = "200" -> 200
      [] str = "750" -> 750
      [] str = "2000" -> 2000
      [] str = "2001" -> 2001
      [] str = "-5" -> 0 - 5
      [] str = "12x" -> 12
      [] OTHER -> 0

\* Mutant: the lower clamp is missing.
handleSetSpeed_NoLowerClamp(s, arg) ==
    LET v0 == toInt(arg)
        val == IF v0 > SPEED_MAX_MS THEN SPEED_MAX_MS ELSE v0
        changed == val # s.patternSpeed
    IN  [s EXCEPT !.patternSpeed = val,
                  !.prefs.speed = IF changed THEN val ELSE @]

handleSetSpeed(s, arg) ==
    LET v0 == toInt(arg)
        v1 == IF v0 < minDwellMs THEN minDwellMs ELSE v0
        val == IF v1 > SPEED_MAX_MS THEN SPEED_MAX_MS ELSE v1
        changed == val # s.patternSpeed
        s1 == [s EXCEPT !.patternSpeed = val]
    IN  IF changed THEN putPref(s1, "speed", val) ELSE s1

\* String::trim and String::toLowerCase on the request's enable argument.
TrimLower(str) ==
    CASE str = " TRUE " -> "true"
      [] str = "False" -> "false"
      [] OTHER -> str

handleSetShuffle(s, argIn, draws) ==
    LET arg == TrimLower(argIn)
    IN  IF arg \notin {"1", "true", "0", "false"} THEN s
        ELSE
          LET next == arg \in {"1", "true"}
              s1 == putPref([s EXCEPT !.shuffleEnabled = next], "shuffle", next)
          IN  IF next
              THEN [buildShuffledOrder(s1, draws) EXCEPT !.patternStart = s.now]
              ELSE [s1 EXCEPT !.playPos = 0, !.cycle = << >>,
                              !.patternStart = s.now]

\* The document handleStatusJSON sends (the fields that depend on the state).
handleStatusJSON(s) ==
    [ on |-> [h |-> s.on_h, m |-> s.on_m],
      off |-> [h |-> s.off_h, m |-> s.off_m],
      pattern |-> s.currentPattern,
      speed_ms |-> s.patternSpeed,
      relays_enabled |-> s.relaysEnabled,
      mode |-> IF s.manualOverride THEN "MANUAL" ELSE "AUTO",
      playlist_len |-> playlistLen,
      shuffle |-> s.shuffleEnabled,
      all_on |-> s.allOnMode,
      hold_s |-> s.patternHoldMs \div 1000 ]

-----------------------------------------------------------------------------
(* /setschedule.  A request argument is a sequence of characters. *)

isspace(c) == c \in {" ", "\t", "\n", "\r"}
isdigit(c) == c \in {"0", "1", "2", "3", "4", "5", "6", "7", "8", "9"}
DigitValue(c) ==
    CHOOSE d \in 0 .. 9 :
        <<"0", "1", "2", "3", "4", "5", "6", "7", "8", "9">>[d + 1] = c

RECURSIVE SkipSpace(_)
SkipSpace(str) ==
    IF str # << >> /\ isspace(Head(str)) THEN SkipSpace(Tail(str)) ELSE str

RECURSIVE DropTrailingSpace(_)
DropTrailingSpace(str) ==
    IF str # << >> /\ isspace(str[Len(str)])
    THEN DropTrailingSpace(SubSeq(str, 1, Len(str) - 1))
    ELSE str

\* String::trim: white space is removed at both ends.
trim(str) == DropTrailingSpace(SkipSpace(str))

\* String::indexOf: the position (from 0) of the first ch, -1 when there is none.
indexOf(str, ch) ==
    IF \E i \in 1 .. Len(str) : str[i] = ch
    THEN (CHOOSE i \in 1 .. Len(str) :
              str[i] = ch /\ \A j \in 1 .. (i - 1) : str[j] # ch) - 1
    ELSE -1

\* String::substring(left, right): the characters at positions left .. right-1.
substring(str, left, right) == SubSeq(str, left + 1, right)

RECURSIVE LeadingDigits(_, _)
LeadingDigits(str, acc) ==
    IF str # << >> /\ isdigit(Head(str))
    THEN LeadingDigits(Tail(str), acc * 10 + DigitValue(Head(str)))
    ELSE acc

\* String::toInt is atol: white space is skipped, then an optional sign and
\* the digits up to the first other character are read; 0 when there are none.
atol(str) ==
    LET body == SkipSpace(str)
    IN  IF body # << >> /\ Head(body) = "-" THEN 0 - LeadingDigits(Tail(body), 0)
        ELSE IF body # << >> /\ Head(body) = "+" THEN LeadingDigits(Tail(body), 0)
        ELSE LeadingDigits(body, 0)

\* Mutant: the minute is not range-checked.
parseTimeStr_NoMinuteCheck(str) ==
    LET s == trim(str)
        colon == indexOf(s, ":")
        hh == atol(substring(s, 0, colon))
        mm == atol(substring(s, colon + 1, Len(s)))
    IN  IF colon < 0 THEN [ok |-> FALSE, h |-> 0, m |-> 0]
        ELSE IF hh < 0 \/ hh > 23 THEN [ok |-> FALSE, h |-> 0, m |-> 0]
        ELSE [ok |-> TRUE, h |-> hh, m |-> mm]

\* ok: the return value; h, m: what the reference arguments receive when ok.
parseTimeStr(str) ==
    LET s == trim(str)
        colon == indexOf(s, ":")
        hh == atol(substring(s, 0, colon))
        mm == atol(substring(s, colon + 1, Len(s)))
    IN  IF colon < 0 THEN [ok |-> FALSE, h |-> 0, m |-> 0]
        ELSE IF hh < 0 \/ hh > 23 \/ mm < 0 \/ mm > 59
             THEN [ok |-> FALSE, h |-> 0, m |-> 0]
        ELSE [ok |-> TRUE, h |-> hh, m |-> mm]

handleSetSchedule(s, onStr, offStr) ==
    LET on == parseTimeStr(onStr)
        s1 == IF on.ok
              THEN [putPref(putPref(s, "on_h", on.h), "on_m", on.m)
                      EXCEPT !.on_h = on.h, !.on_m = on.m]
              ELSE s
        off == parseTimeStr(offStr)
    IN  IF off.ok
        THEN [putPref(putPref(s1, "off_h", off.h), "off_m", off.m)
                EXCEPT !.off_h = off.h, !.off_m = off.m]
        ELSE s1

-----------------------------------------------------------------------------
(* loop(): the stages after server.handleClient() *)

\* Mutant: the hold's frame is applied by the handler only, not again by
\* loop().
driveRelays_NoHoldRetry(s, rnd, draws) ==
    IF s.allOnMode /\ s.relaysEnabled /\ ~s.overheatShutdown
    THEN s
    ELSE LET s1 == maybeAdvancePattern(s, draws)
         IN  IF s1.relaysEnabled /\ ~s1.overheatShutdown
             THEN stepPatternIfDue([s1 EXCEPT !.alreadyOff = FALSE], rnd)
             ELSE IF ~s1.alreadyOff
                  THEN [forceAllRelaysOff(s1) EXCEPT !.alreadyOff = TRUE]
                  ELSE s1

\* "If All-ON mode is active ..." to the end of loop().
driveRelays(s, rnd, draws) ==
    IF s.allOnMode /\ s.relaysEnabled /\ ~s.overheatShutdown
    THEN applyFrame(s, ALL_ON_FRAME)
    ELSE LET s1 == maybeAdvancePattern(s, draws)
         IN  IF s1.relaysEnabled /\ ~s1.overheatShutdown
             THEN stepPatternIfDue([s1 EXCEPT !.alreadyOff = FALSE], rnd)
             ELSE IF ~s1.alreadyOff
                  THEN [forceAllRelaysOff(s1) EXCEPT !.alreadyOff = TRUE]
                  ELSE s1

\* No frame: a value above every uint8_t.
NoFrame == ALL_ON_FRAME + 1

\* The local frame of stepPatternIfDue() when driveRelays(s, rnd, draws) makes
\* a pattern step, NoFrame when it makes none.
stepFrame(s, rnd, draws) ==
    IF s.allOnMode /\ s.relaysEnabled /\ ~s.overheatShutdown THEN NoFrame
    ELSE LET s1 == maybeAdvancePattern(s, draws)
         IN  IF s1.relaysEnabled /\ ~s1.overheatShutdown /\ StepDue(s1)
             THEN patternFrame(s1, rnd).frame
             ELSE NoFrame

-----------------------------------------------------------------------------
(* Inputs *)

\* Names sent to /setpattern.
PatternNames == {"wave", "bogus"}

\* The random(0, i+1) draws of one Fisher-Yates pass, indexed by i.
ShuffleDraws ==
    { [i \in 1 .. (playlistLen - 1) |-> 0],
      [i \in 1 .. (playlistLen - 1) |-> i] }

NoRandom == [bit1 |-> 0, bit2 |-> 0, start |-> FALSE, count |-> 2,
             fill |-> << >>, burst |-> 3]

\* The random() draws a pattern step of state s can consume.
RandomDraws(s) ==
    CASE s.currentPattern = "RANDOM" ->
            { [NoRandom EXCEPT !.bit1 = b] : b \in {0, 7} }
      [] s.currentPattern = "SPARKLE_SPARSE" ->
            { [NoRandom EXCEPT !.bit1 = b1, !.bit2 = b2] : b1 \in {0, 7}, b2 \in {0, 5} }
      [] s.currentPattern = "RANDOM_BURSTS" ->
            { NoRandom,
              [NoRandom EXCEPT !.start = TRUE, !.count = 2,
                               !.fill = <<0, 0, 1>>, !.burst = 3],
              [NoRandom EXCEPT !.start = TRUE, !.count = 5,
                               !.fill = <<7, 6, 6, 5, 4, 3>>, !.burst = 6] }
      [] OTHER -> { NoRandom }

\* What the Preferences namespace can hold at boot.
DefaultPrefs ==
    [ pattern |-> "CHASE", speed |-> 200, on_h |-> 18, on_m |-> 0,
      off_h |-> 22, off_m |-> 0, manualOverride |-> FALSE,
      relaysEnabled |-> FALSE, shuffle |-> TRUE, holdMs |-> 60000 ]

PersistedPrefs ==
    { [DefaultPrefs EXCEPT !.manualOverride = m, !.relaysEnabled = r] :
        m \in BOOLEAN, r \in BOOLEAN }

\* The outcomes of an OpenWeather request: failure, or sunset + offset at
\* 16:45 or 17:30 local time.
FetchResults == {FetchFailed, 1005, 1050}

\* millis() when initRelaysPins() runs, and the time setup() takes after it.
BootTimes == {0}
SetupDurations == {2000}

-----------------------------------------------------------------------------
(* Initial state: the state when setup() returns *)

\* The weather service as setup() finds it.  enabled: the station is connected,
\* sunset mode is on and a weather key is stored; attempt: setup() also knows
\* the time and calls updateSunsetTime(); fetch: the outcome of that call.
NoSunset == [enabled |-> FALSE, attempt |-> FALSE, fetch |-> FetchFailed]

\* p: the persisted preferences; t0, d: millis() when initRelaysPins() runs and
\* the time setup() takes after it; draws: the draws of the first shuffle;
\* sun: the weather service.
SetupDone(p, t0, d, draws, sun) ==
      /\ pc = "client"
      /\ iter = 0
      /\ cmds = 0
      /\ now = t0 + d
      /\ lastChangeMs = initLastChangeMs(t0)
      /\ currentFrame = 0
      /\ pins = 0
      /\ alreadyOff = TRUE
      /\ allOnMode = FALSE
      /\ overheatShutdown = FALSE
      /\ enclosureTemp = NaN
      /\ lastTempReadMs = 0
      /\ lastScheduleCheck = 0
      \* loadPrefs()
      /\ prefs = p
      /\ patternSpeed = p.speed
      /\ currentPattern = p.pattern
      /\ off_h = p.off_h /\ off_m = p.off_m
      \* if (updateSunsetTime()) lastSunsetUpdate = millis(); else lastSunsetUpdate = 0;
      /\ LET b == setupSunset([now |-> t0 + d, on_h |-> p.on_h, on_m |-> p.on_m,
                               lastSunsetUpdate |-> 0, fetchAt |-> Never,
                               fetchFailed |-> FALSE, retryGap |-> Never],
                              sun.attempt, sun.fetch)
         IN  /\ on_h = b.on_h /\ on_m = b.on_m
             /\ lastSunsetUpdate = b.lastSunsetUpdate
             /\ fetchAt = b.fetchAt
             /\ fetchFailed = b.fetchFailed
             /\ retryGap = b.retryGap
      /\ sunsetEnabled = sun.enabled
      /\ manualOverride = p.manualOverride
      /\ relaysEnabled = p.relaysEnabled
      /\ shuffleEnabled = p.shuffle
      /\ patternHoldMs = p.holdMs
      /\ patIndex = 0
      /\ lastPatStep = 0
      /\ statics = InitStatics
      \* if (shuffleEnabled) buildShuffledOrder(); else buildSequentialOrder();
      /\ playOrder = IF p.shuffle
                     THEN ShuffleFrom(SequentialOrder, draws, playlistLen - 1)
                     ELSE SequentialOrder
      /\ playPos = 0
      /\ patternStart = t0 + d
      /\ stepAt = Never
      /\ stepGap = Never
      /\ stepMs = 0
      /\ cycle = << >>
      /\ lastToggle = [i \in Channels |-> Never]
      /\ toggleGap = [i \in Channels |-> Never]
      /\ toggleBy = [i \in Channels |-> "none"]
      /\ resumePending = FALSE
      /\ lastOp = [op |-> "setup"]

Init ==
    \E p \in PersistedPrefs, t0 \in BootTimes, d \in SetupDurations,
       draws \in ShuffleDraws :
          SetupDone(p, t0, d, draws, NoSunset)

-----------------------------------------------------------------------------
(* Actions *)

\* millis() after dt more milliseconds.
Later(s, dt) == [s EXCEPT !.now = (s.now + dt) % MillisModulus]

\* loop() is entered dt after its previous iteration; server.handleClient()
\* then runs one request handler (Client) or finds no request (NoRequest).
\* powerOn: the request switched power on.
Client(op, s, powerOn) ==
    /\ pc = "client"
    /\ iter < MaxIter
    /\ cmds < MaxCommands
    /\ Commit(s)
    /\ pc' = "temp"
    /\ iter' = iter
    /\ cmds' = cmds + 1
    /\ resumePending' = (resumePending /\ ~powerOn)
    /\ lastOp' = op

NoRequest ==
    \E dt \in Dts :
      /\ pc = "client"
      /\ iter < MaxIter
      /\ Commit(Later(St, dt))
      /\ pc' = "temp"
      /\ lastOp' = [op |-> "none"]
      /\ UNCHANGED << iter, cmds, resumePending >>

HandleOn ==
    \E dt \in Dts : Client([op |-> "handleOn"], handleOn(Later(St, dt)), TRUE)

HandleOff ==
    \E dt \in Dts : Client([op |-> "handleOff"], handleOff(Later(St, dt)), FALSE)

HandleAuto ==
    \E dt \in Dts : Client([op |-> "handleAuto"], handleAuto(Later(St, dt)), FALSE)

HandleAllOn ==
    \E dt \in Dts :
        Client([op |-> "handleAllOn", held |-> allOnMode, overheated |-> overheatShutdown],
               handleAllOn(Later(St, dt)),
               ~allOnMode /\ handleAllOn(Later(St, dt)).allOnMode)

HandlePattern ==
    \E dt \in Dts, name \in PatternNames :
        Client([op |-> "handlePattern", name |-> name, held |-> allOnMode],
               handlePattern(Later(St, dt), name), FALSE)

CheckTemperature ==
    /\ pc = "temp"
    /\ \E t \in (IF TempDue(St) THEN TempSamples ELSE {NaN}) :
         LET s1 == checkTemperatureAndProtect(sunsetCheck(St, FetchFailed), t)
             tripped == ~overheatShutdown /\ s1.overheatShutdown
             cleared == overheatShutdown /\ ~s1.overheatShutdown
         IN /\ Commit(s1)
            /\ resumePending' = (cleared \/ (resumePending /\ ~tripped))
            /\ lastOp' = [op |-> "checkTemperature", due |-> TempDue(St), t |-> t,
                          cleared |-> cleared]
    /\ pc' = "sched"
    /\ UNCHANGED << iter, cmds >>

ScheduleCheck ==
    /\ pc = "sched"
    /\ \E clock \in (IF ScheduleDue(St) THEN ClockSamples ELSE {NoTime}) :
         LET s1 == scheduleCheck(St, clock)
         IN /\ Commit(s1)
            /\ resumePending' = (resumePending /\ ~(~relaysEnabled /\ s1.relaysEnabled))
            /\ lastOp' = [op |-> "scheduleCheck", due |-> ScheduleDue(St),
                          clock |-> clock, was |-> relaysEnabled,
                          held |-> allOnMode]
    /\ pc' = "drive"
    /\ UNCHANGED << iter, cmds >>

\* The draws of the Fisher-Yates pass, when this iteration rebuilds the order.
RebuildDraws(s) ==
    IF AdvanceDue(s) /\ s.playPos >= playlistLen THEN ShuffleDraws
    ELSE { CHOOSE d \in ShuffleDraws : TRUE }

\* The rest of loop().
DriveRelays ==
    /\ pc = "drive"
    /\ \E draws \in RebuildDraws(St) :
         \E rnd \in RandomDraws(maybeAdvancePattern(St, draws)) :
            /\ Commit(driveRelays(St, rnd, draws))
            /\ lastOp' = [op |-> "driveRelays",
                          rotated |-> Len(cycle') # Len(cycle),
                          frame |-> stepFrame(St, rnd, draws)]
    /\ pc' = "client"
    /\ iter' = iter + 1
    /\ UNCHANGED << cmds, resumePending >>

Next ==
    \/ NoRequest
    \/ HandleOn
    \/ HandleOff
    \/ HandleAuto
    \/ HandleAllOn
    \/ HandlePattern
    \/ CheckTemperature
    \/ ScheduleCheck
    \/ DriveRelays

Spec == Init /\ [][Next]_vars

-----------------------------------------------------------------------------
(* The schedule window as a function of (on, off, now): every stored window *)
(* of ScheduleMinutes, evaluated at every minute of the day.                *)

MINUTES_PER_DAY == 24 * 60

\* Minutes of the day the persisted ON and OFF times are drawn from.
ScheduleMinutes == {0, 1, 360, 1080, 1320, 1439}

InitSchedule ==
    \E onMin \in ScheduleMinutes, offMin \in ScheduleMinutes :
        SetupDone([DefaultPrefs EXCEPT !.on_h = onMin \div 60, !.on_m = onMin % 60,
                                      !.off_h = offMin \div 60, !.off_m = offMin % 60],
                  0, 2000, CHOOSE d \in ShuffleDraws : TRUE, NoSunset)

\* The first call of computeShouldBeOn() after setup(), with getLocalTime()
\* giving minute `clock`.
EvaluateSchedule ==
    \E clock \in 0 .. (MINUTES_PER_DAY - 1) :
      /\ lastOp.op = "setup"
      /\ lastOp' = [op |-> "computeShouldBeOn", clock |-> clock,
                    result |-> computeShouldBeOn(St, clock)]
      /\ UNCHANGED << pc, iter, cmds, now, lastChangeMs, currentFrame, pins,
                      relaysEnabled, manualOverride, alreadyOff, allOnMode,
                      overheatShutdown, enclosureTemp, lastTempReadMs,
                      lastScheduleCheck, currentPattern, patternSpeed, patIndex,
                      lastPatStep, shuffleEnabled, patternHoldMs, patternStart,
                      playOrder, playPos, statics, on_h, on_m, off_h, off_m, prefs,
                      sunsetEnabled, lastSunsetUpdate, fetchAt, fetchFailed,
                      retryGap, stepAt, stepGap, stepMs, cycle,
                      lastToggle, toggleGap, toggleBy, resumePending >>

NextSchedule == EvaluateSchedule

SpecSchedule == InitSchedule /\ [][NextSchedule]_vars

-----------------------------------------------------------------------------------------------------------------------------------------------------
(* The settings requests /setshuffle, /setspeed and /status.json, with /allon, *)
(* in MANUAL mode.  The loop() stages are those of Spec.                      *)

\* The val arguments of /setspeed and the enable arguments of /setshuffle.
SpeedArgs == {"50", "750", "2001", "fast"}
ShuffleArgs == {" TRUE ", "0", "maybe"}

\* Persisted pattern speeds: loadPrefs() takes the stored value as it is.
PersistedSpeeds == {50, 500}

SettingsPrefs ==
    { [DefaultPrefs EXCEPT !.manualOverride = TRUE, !.relaysEnabled = r,
                           !.shuffle = sh, !.speed = sp] :
        r \in BOOLEAN, sh \in BOOLEAN, sp \in PersistedSpeeds }

InitSettings ==
    \E p \in SettingsPrefs :
        SetupDone(p, 0, 2000, CHOOSE d \in ShuffleDraws : TRUE, NoSunset)

\* The draws of the Fisher-Yates pass /setshuffle makes when it enables shuffle.
EnableDraws(arg) ==
    IF TrimLower(arg) \in {"1", "true"} THEN ShuffleDraws
    ELSE { CHOOSE d \in ShuffleDraws : TRUE }

HandleSetShuffle ==
    \E dt \in Dts, arg \in ShuffleArgs :
      \E draws \in EnableDraws(arg) :
        Client([op |-> "handleSetShuffle", arg |-> arg],
               handleSetShuffle(Later(St, dt), arg, draws), FALSE)

HandleSetSpeed ==
    \E dt \in Dts, arg \in SpeedArgs :
        Client([op |-> "handleSetSpeed", arg |-> arg, persisted |-> prefs.speed],
               handleSetSpeed(Later(St, dt), arg), FALSE)

HandleStatusJSON ==
    \E dt \in Dts :
        Client([op |-> "handleStatusJSON",
                reply |-> handleStatusJSON(Later(St, dt))],
               Later(St, dt), FALSE)

NextSettings ==
    \/ NoRequest
    \/ HandleSetShuffle
    \/ HandleSetSpeed
    \/ HandleStatusJSON
    \/ HandleAllOn
    \/ CheckTemperature
    \/ ScheduleCheck
    \/ DriveRelays

SpecSettings == InitSettings /\ [][NextSettings]_vars

-----------------------------------------------------------------------------
(* Long runs in MANUAL mode with power on: the rotation through more than    *)
(* one play order.  One action is one whole iteration of loop(), with or     *)
(* without a /setshuffle request.                                            *)

MaxRotationIter == 12
MaxRotationCommands == 1

\* The hold time passes between two iterations, and the enclosure stays
\* below the trip threshold.
RotationDts == {60000}
RotationTemps == {NaN, 480}

InitRotation ==
    \E sh \in BOOLEAN, draws \in ShuffleDraws :
        SetupDone([DefaultPrefs EXCEPT !.manualOverride = TRUE,
                                       !.relaysEnabled = TRUE, !.shuffle = sh],
                  0, 2000, draws, NoSunset)

\* loop() from the sunset block to its end, entered in state s.
LoopStages(s, op, temps) ==
    \E fetch \in (IF SunsetDue(s) THEN FetchResults ELSE {FetchFailed}) :
      LET s1 == sunsetCheck(s, fetch)
      IN  \E t \in (IF TempDue(s1) THEN temps ELSE {NaN}) :
            LET s2 == checkTemperatureAndProtect(s1, t)
            IN  \E clock \in (IF ScheduleDue(s2) THEN ClockSamples ELSE {NoTime}) :
                  LET s3 == scheduleCheck(s2, clock)
                  IN  \E draws \in RebuildDraws(s3) :
                        \E rnd \in RandomDraws(maybeAdvancePattern(s3, draws)) :
                          /\ Commit(driveRelays(s3, rnd, draws))
                          /\ lastOp' = [op |-> op,
                                        rotated |-> Len(cycle') # Len(s.cycle),
                                        fetched |-> SunsetDue(s)]
                          /\ pc' = pc
                          /\ iter' = iter + 1
                          /\ UNCHANGED resumePending

LoopNoRequest ==
    \E dt \in RotationDts :
      /\ pc = "client"
      /\ iter < MaxRotationIter
      /\ LoopStages(Later(St, dt), "loop", RotationTemps)
      /\ cmds' = cmds

LoopSetShuffle ==
    \E dt \in RotationDts, arg \in ShuffleArgs :
      \E draws \in EnableDraws(arg) :
        /\ pc = "client"
        /\ iter < MaxRotationIter
        /\ cmds < MaxRotationCommands
        /\ LoopStages(handleSetShuffle(Later(St, dt), arg, draws), "handleSetShuffle",
                      RotationTemps)
        /\ cmds' = cmds + 1

NextRotation ==
    \/ LoopNoRequest
    \/ LoopSetShuffle

SpecRotation == InitRotation /\ [][NextRotation]_vars

-----------------------------------------------------------------------------
(* Days of operation with a weather key stored: the sunset fetch of setup()  *)
(* and the daily fetch of loop().  One action is one whole iteration of      *)
(* loop().                                                                   *)

MaxSunsetIter == 4

\* Time between two iterations: a second, the retry delay, a day.
SunsetDts == {1000, SUNSET_RETRY_MS, SUNSET_PERIOD_MS}

InitSunset ==
    \E attempt \in BOOLEAN, fetch \in FetchResults, m \in BOOLEAN :
        SetupDone([DefaultPrefs EXCEPT !.manualOverride = m], 0, 2000,
                  CHOOSE d \in ShuffleDraws : TRUE,
                  [enabled |-> TRUE, attempt |-> attempt, fetch |-> fetch])

LoopSunset ==
    \E dt \in SunsetDts :
      /\ pc = "client"
      /\ iter < MaxSunsetIter
      /\ LoopStages(Later(St, dt), "loop", RotationTemps)
      /\ cmds' = cmds

NextSunset == LoopSunset

SpecSunset == InitSunset /\ [][NextSunset]_vars

-----------------------------------------------------------------------------
(* SpecHold: iterations of loop() less than a dwell time apart, with /on,    *)
(* /off and /allon requests: the All-ON hold entered while channels are      *)
(* inside their dwell time.  One action is one whole iteration of loop().    *)

MaxHoldIter == 4
MaxHoldCommands == 2

\* Time between two iterations: a quarter of the dwell time, the dwell time.
HoldDts == {minDwellMs \div 4, minDwellMs}

LoopHoldNoRequest ==
    \E dt \in HoldDts :
      /\ pc = "client"
      /\ iter < MaxHoldIter
      /\ LoopStages(Later(St, dt), "loop", RotationTemps)
      /\ cmds' = cmds

LoopHoldOn ==
    \E dt \in HoldDts :
      /\ pc = "client"
      /\ iter < MaxHoldIter
      /\ cmds < MaxHoldCommands
      /\ LoopStages(handleOn(Later(St, dt)), "handleOn", RotationTemps)
      /\ cmds' = cmds + 1

LoopHoldOff ==
    \E dt \in HoldDts :
      /\ pc = "client"
      /\ iter < MaxHoldIter
      /\ cmds < MaxHoldCommands
      /\ LoopStages(handleOff(Later(St, dt)), "handleOff", RotationTemps)
      /\ cmds' = cmds + 1

LoopHoldAllOn ==
    \E dt \in HoldDts :
      /\ pc = "client"
      /\ iter < MaxHoldIter
      /\ cmds < MaxHoldCommands
      /\ LoopStages(handleAllOn(Later(St, dt)), "handleAllOn", RotationTemps)
      /\ cmds' = cmds + 1

NextHold ==
    \/ LoopHoldNoRequest
    \/ LoopHoldOn
    \/ LoopHoldOff
    \/ LoopHoldAllOn

SpecHold == Init /\ [][NextHold]_vars

-----------------------------------------------------------------------------
(* /setschedule requests and sunset updates, in MANUAL mode with power off   *)
(* and a weather key stored.  The loop() stages are those of Spec, with the  *)
(* daily fetch as a stage of its own.                                        *)

\* The on and off arguments of /setschedule.
TimeStrs ==
    { <<"1", "8", ":", "3", "0">>,
      <<" ", "6", ":", "1", "5", " ">>,
      <<"2", "3", ":", "5", "9">>,
      <<"a", "b", ":", "c", "d">>,
      <<"2", "4", ":", "0", "0">>,
      <<"1", "2", ":", "6", "0">>,
      <<"-", "1", ":", "3", "0">>,
      <<"1", "8", "3", "0">>,
      << >> }

OffTimeStrs ==
    { <<"2", "3", ":", "5", "9">>,
      <<"7", ":", "6", "1">>,
      <<"0", "7", "0", "5">> }

\* Time between the previous iteration of loop() and the request: a moment, a
\* day.
ScheduleDts == {100, SUNSET_PERIOD_MS}

InitSetSchedule ==
    \E attempt \in BOOLEAN, fetch \in FetchResults :
        SetupDone([DefaultPrefs EXCEPT !.manualOverride = TRUE], 0, 2000,
                  CHOOSE d \in ShuffleDraws : TRUE,
                  [enabled |-> TRUE, attempt |-> attempt, fetch |-> fetch])

HandleSetSchedule ==
    \E dt \in ScheduleDts, onStr \in TimeStrs, offStr \in OffTimeStrs :
        Client([op |-> "handleSetSchedule", on |-> onStr, off |-> offStr,
                puts |-> handleSetSchedule(Later(St, dt), onStr, offStr).puts],
               handleSetSchedule(Later(St, dt), onStr, offStr), FALSE)

\* The "Sunset update daily" block of loop(), when the fetch is due.
SunsetUpdate ==
    /\ pc = "temp"
    /\ SunsetDue(St)
    /\ \E fetch \in FetchResults : Commit(sunsetCheck(St, fetch))
    /\ lastOp' = [op |-> "sunsetCheck"]
    /\ UNCHANGED << pc, iter, cmds, resumePending >>

NextSetSchedule ==
    \/ NoRequest
    \/ HandleSetSchedule
    \/ SunsetUpdate
    \/ CheckTemperature
    \/ ScheduleCheck
    \/ DriveRelays

SpecSetSchedule == InitSetSchedule /\ [][NextSetSchedule]_vars

-----------------------------------------------------------------------------
(* The stores to the Preferences namespace.  The requests and loop() stages  *)
(* are those of Spec and SpecSettings; each action that can store records    *)
(* the stores it issued.                                                     *)

\* A request handled by server.handleClient(), ending in state s.
Request(name, s, powerOn) == Client([op |-> name, puts |-> s.puts], s, powerOn)

RequestOn == \E dt \in Dts : Request("handleOn", handleOn(Later(St, dt)), TRUE)

RequestOff == \E dt \in Dts : Request("handleOff", handleOff(Later(St, dt)), FALSE)

RequestAuto == \E dt \in Dts : Request("handleAuto", handleAuto(Later(St, dt)), FALSE)

RequestAllOn ==
    \E dt \in Dts :
        Request("handleAllOn", handleAllOn(Later(St, dt)),
                ~allOnMode /\ handleAllOn(Later(St, dt)).allOnMode)

RequestPattern ==
    \E dt \in Dts, name \in PatternNames :
        Request("handlePattern", handlePattern(Later(St, dt), name), FALSE)

RequestSetShuffle ==
    \E dt \in Dts, arg \in ShuffleArgs :
        Request("handleSetShuffle",
                handleSetShuffle(Later(St, dt), arg, CHOOSE d \in ShuffleDraws : TRUE),
                FALSE)

RequestSetSpeed ==
    \E dt \in Dts, arg \in SpeedArgs :
        Request("handleSetSpeed", handleSetSpeed(Later(St, dt), arg), FALSE)

\* The schedule block of loop().
TickSchedule ==
    /\ pc = "sched"
    /\ \E clock \in (IF ScheduleDue(St) THEN ClockSamples ELSE {NoTime}) :
         LET s1 == scheduleCheck(St, clock)
         IN /\ Commit(s1)
            /\ resumePending' = (resumePending /\ ~(~relaysEnabled /\ s1.relaysEnabled))
            /\ lastOp' = [op |-> "scheduleCheck", puts |-> s1.puts]
    /\ pc' = "drive"
    /\ UNCHANGED << iter, cmds >>

\* The rest of loop().
TickDrive ==
    /\ pc = "drive"
    /\ \E draws \in RebuildDraws(St) :
         \E rnd \in RandomDraws(maybeAdvancePattern(St, draws)) :
            LET s1 == driveRelays(St, rnd, draws)
            IN  /\ Commit(s1)
                /\ lastOp' = [op |-> "driveRelays", puts |-> s1.puts]
    /\ pc' = "client"
    /\ iter' = iter + 1
    /\ UNCHANGED << cmds, resumePending >>

NextPrefs ==
    \/ NoRequest
    \/ RequestOn
    \/ RequestOff
    \/ RequestAuto
    \/ RequestAllOn
    \/ RequestPattern
    \/ RequestSetShuffle
    \/ RequestSetSpeed
    \/ CheckTemperature
    \/ TickSchedule
    \/ TickDrive

SpecPrefs == Init /\ [][NextPrefs]_vars

-----------------------------------------------------------------------------
(* The relay primitives called one at a time: setRelaySafe on one channel,   *)
(* forceAllRelaysOff, with a temperature reading or /on in between to set    *)
(* and clear what setRelaySafe enforces.                                     *)

MaxRelayCalls == 4

\* Time between two calls: inside and outside the dwell time.
RelayDts == {50, minDwellMs}

\* The idx arguments: the first and last channel, and one past the end.
RelayIndexes == {0, NUM_RELAYS - 1, NUM_RELAYS}

\* One call made in state s (the state before it is in the variables).
RelayCall(op, s) ==
    /\ pc = "client"
    /\ iter < MaxRelayCalls
    /\ Commit(s)
    /\ lastOp' = op
    /\ iter' = iter + 1
    /\ UNCHANGED << pc, cmds, resumePending >>

CallSetRelaySafe ==
    \E dt \in RelayDts, idx \in RelayIndexes, wantOn \in BOOLEAN :
        RelayCall([op |-> "setRelaySafe", idx |-> idx, wantOn |-> wantOn,
                   result |-> setRelaySafeResult(Later(St, dt), idx, wantOn)],
                  setRelaySafe(Later(St, dt), idx, wantOn))

CallForceAllRelaysOff ==
    \E dt \in RelayDts :
        RelayCall([op |-> "forceAllRelaysOff", frame |-> currentFrame,
                   sinceChange |-> [i \in Channels |->
                                      Elapsed(Later(St, dt).now, lastChangeMs[i])]],
                  forceAllRelaysOff(Later(St, dt)))

CallCheckTemperature ==
    \E t \in TempSamples :
        RelayCall([op |-> "checkTemperature", t |-> t],
                  checkTemperatureAndProtect(Later(St, TEMP_READ_INTERVAL_MS), t))

CallHandleOn ==
    \E dt \in RelayDts : RelayCall([op |-> "handleOn"], handleOn(Later(St, dt)))

NextRelay ==
    \/ CallSetRelaySafe
    \/ CallForceAllRelaysOff
    \/ CallCheckTemperature
    \/ CallHandleOn

SpecRelay == Init /\ [][NextRelay]_vars

-----------------------------------------------------------------------------
(* The frame sequences of the patterns: stepPatternIfDue called each time a  *)
(* step is due, from the fresh state of setup(), in MANUAL mode with power   *)
(* on and rotation off.                                                      *)

MaxPatternSteps == 20
MaxSparkleSteps == 4

\* The steps made of pattern p: SPARKLE_SPARSE branches on its draws at every
\* step.
StepLimit(p) == IF p = "SPARKLE_SPARSE" THEN MaxSparkleSteps ELSE MaxPatternSteps

SteppedPatterns ==
    {"WAVE", "PAIR_PINGPONG", "BLOCK_WIPE", "OVERLAP_WAVE", "SPARKLE_SPARSE",
     "RANDOM_BURSTS"}

InitPatterns ==
    \E p \in SteppedPatterns :
        SetupDone([DefaultPrefs EXCEPT !.pattern = p, !.manualOverride = TRUE,
                                       !.relaysEnabled = TRUE, !.shuffle = FALSE],
                  0, 2000, CHOOSE d \in ShuffleDraws : TRUE, NoSunset)

\* The values random(0,8) gives SPARKLE_SPARSE: the low three bits, which the
\* strip loop clears first, and the two highest.
SparkleBits == {0, 1, 2, 6, 7}

\* The random() draws of a step: for SPARKLE_SPARSE every pair of
\* SparkleBits, for RANDOM_BURSTS no burst, the shortest burst of the fewest
\* bits and the longest burst of the most bits.
StepDraws(s) ==
    IF s.currentPattern = "SPARKLE_SPARSE"
    THEN { [NoRandom EXCEPT !.bit1 = b1, !.bit2 = b2] :
             b1 \in SparkleBits, b2 \in SparkleBits }
    ELSE IF s.currentPattern = "RANDOM_BURSTS" /\ s.statics.burst = 0
    THEN RandomDraws(s)
    ELSE { NoRandom }

\* frame_RANDOM_BURSTS in state st with draws rnd starts a burst / repeats
\* the mask of the burst in progress.
BurstStarts(st, rnd) == st.burst = 0 /\ rnd.start
BurstContinues(st) == st.burst > 0

\* The number of bits of SPARKLE_SPARSE's mask after its two toggles, before
\* the strip loop.
SparkleToggled(st, rnd) ==
    popcount8(ToggleBit(ToggleBit(st.sparkleMask, rnd.bit1), rnd.bit2))

\* One due step.  lastOp keeps the frame the switch computed and, in k, the
\* number of steps made before this one; for RANDOM_BURSTS, in run, the
\* number of consecutive steps, this one included, that have output the mask
\* of the burst in progress (0: no burst), and in ended the run of the burst
\* that was over when this step took its random decision (0: none).
CallStepPattern ==
    \E rnd \in StepDraws(St) :
      LET s0 == Later(St, StepMs(St))
          bursts == currentPattern = "RANDOM_BURSTS"
      IN  /\ pc = "client"
          /\ iter < StepLimit(currentPattern)
          /\ Commit(stepPatternIfDue(s0, rnd))
          /\ lastOp' = [op |-> "stepPatternIfDue", k |-> iter,
                        frame |-> patternFrame(s0, rnd).frame,
                        toggled |-> SparkleToggled(statics, rnd),
                        run |-> IF bursts /\ BurstContinues(statics)
                                THEN lastOp.run + 1
                                ELSE IF bursts /\ BurstStarts(statics, rnd)
                                THEN 1 ELSE 0,
                        ended |-> IF bursts /\ ~BurstContinues(statics)
                                     /\ lastOp.op = "stepPatternIfDue"
                                  THEN lastOp.run ELSE 0]
          /\ iter' = iter + 1
          /\ UNCHANGED << pc, cmds, resumePending >>

NextPatterns == CallStepPattern

SpecPatterns == InitPatterns /\ [][NextPatterns]_vars

-----------------------------------------------------------------------------
(* SpecFill: due steps of RANDOM_BURSTS with the fill loop of                *)
(* frame_RANDOM_BURSTS taken one iteration at a time.  While the loop runs,  *)
(* pc = "fill", statics.burstMask is the mask being built and lastOp keeps   *)
(* count and, in turn, the parity of the iterations made.                    *)

MaxFillSteps == 3

InitFill ==
    SetupDone([DefaultPrefs EXCEPT !.pattern = "RANDOM_BURSTS",
                                   !.manualOverride = TRUE,
                                   !.relaysEnabled = TRUE, !.shuffle = FALSE],
              0, 2000, CHOOSE d \in ShuffleDraws : TRUE, NoSunset)

\* The values of count = 2 + random(0,4) and burst = 3 + random(0,4) taken:
\* the least and the greatest.
FillCounts == {2, 5}
FillBursts == {3, 6}

\* The set bits of mask from bit i up, lowest first.
RECURSIVE BitsOf(_, _)
BitsOf(mask, i) ==
    IF i \notin Channels THEN << >>
    ELSE IF IsOn(mask, i) THEN << i >> \o BitsOf(mask, i + 1)
    ELSE BitsOf(mask, i + 1)

\* A due step that does not reach the loop: a burst is in progress, or
\* random(0,10) is not 0.
StepWithoutFill ==
    LET s0 == Later(St, StepMs(St))
    IN  /\ pc = "client"
        /\ iter < MaxFillSteps
        /\ Commit(stepPatternIfDue(s0, NoRandom))
        /\ lastOp' = [op |-> "stepPatternIfDue",
                      frame |-> patternFrame(s0, NoRandom).frame]
        /\ iter' = iter + 1
        /\ UNCHANGED << pc, cmds, resumePending >>

\* A due step with no burst in progress whose random(0,10) is 0: mask = 0,
\* count is drawn and the loop is reached.
EnterFill ==
    \E count \in FillCounts :
      LET s0 == Later(St, StepMs(St))
      IN  /\ pc = "client"
          /\ iter < MaxFillSteps
          /\ StepDue(s0)
          /\ currentPattern = "RANDOM_BURSTS"
          /\ statics.burst = 0
          /\ Commit([s0 EXCEPT !.statics.burstMask = 0])
          /\ pc' = "fill"
          /\ lastOp' = [op |-> "fill", count |-> count, turn |-> 0]
          /\ iter' = iter + 1
          /\ UNCHANGED << cmds, resumePending >>

\* One iteration of the loop: mask |= (1 << random(0,8)).
FillIteration ==
    \E b \in Channels :
        /\ pc = "fill"
        /\ popcount8(statics.burstMask) < lastOp.count
        /\ Commit([St EXCEPT !.statics.burstMask = SetBit(@, b)])
        /\ lastOp' = [lastOp EXCEPT !.turn = 1 - @]
        /\ UNCHANGED << pc, iter, cmds, resumePending >>

\* The loop's condition fails: burst is drawn, the mask is returned and the
\* step applies it.
ExitFill ==
    \E burst \in FillBursts :
      LET rnd == [NoRandom EXCEPT !.start = TRUE, !.count = lastOp.count,
                                  !.fill = BitsOf(statics.burstMask, 0),
                                  !.burst = burst]
      IN  /\ pc = "fill"
          /\ popcount8(statics.burstMask) >= lastOp.count
          /\ Commit(stepPatternIfDue(St, rnd))
          /\ pc' = "client"
          /\ lastOp' = [op |-> "stepPatternIfDue",
                        frame |-> patternFrame(St, rnd).frame]
          /\ UNCHANGED << iter, cmds, resumePending >>

NextFill == StepWithoutFill \/ EnterFill \/ FillIteration \/ ExitFill

\* The loop's condition has failed: mask holds count bits.
FillDone == pc = "fill" /\ popcount8(statics.burstMask) >= lastOp.count

\* The processor keeps executing the loop: while its condition holds, the
\* next iteration is made.
SpecFill == InitFill /\ [][NextFill]_vars /\ WF_vars(FillIteration)

-----------------------------------------------------------------------------
(* Relay dwell *)

\* C1 as stated: on every channel, any two consecutive changes of the physical
\* ON/OFF state are at least minDwellMs apart, whichever primitive made them.
C1_AllTogglesDwellApart ==
    \A i \in Channels : toggleGap[i] # Never => toggleGap[i] >= minDwellMs

\* C1 amended: two consecutive changes of a channel's physical state are less
\* than minDwellMs apart only when the later one is the switch-off made by
\* forceAllRelaysOff; every change made by setRelaySafe (every switch-on, and
\* every switch-off of a pattern step) comes at least minDwellMs after the
\* channel's previous change.
C1_DwellExceptForcedOff ==
    \A i \in Channels :
        (toggleGap[i] # Never /\ toggleGap[i] < minDwellMs)
            => (toggleBy[i] = "forceAllRelaysOff" /\ ~IsOn(pins, i))

\* A channel was switched on and, a dwell or more later, switched again by
\* setRelaySafe.
C1_Witness ==
    \E i \in Channels :
        /\ toggleBy[i] = "setRelaySafe"
        /\ toggleGap[i] # Never
        /\ toggleGap[i] >= minDwellMs

-----------------------------------------------------------------------------
(* Overheat interlock and global power *)

\* C2: while the overheat interlock is set no channel is energized
\* (currentFrame = 0 and every pin is off), at every stage boundary of loop()
\* and after every command handler.
C2_OverheatAllOff == overheatShutdown => (currentFrame = 0 /\ pins = 0)

\* Overheated, power requested again (relaysEnabled), and the pattern stage ran.
C2_Witness ==
    overheatShutdown /\ relaysEnabled /\ ~allOnMode /\ lastOp.op = "driveRelays"

\* C3: while global power is OFF (relaysEnabled = FALSE) no channel is
\* energized (currentFrame = 0 and every pin is off).
C3_PowerOffAllOff == ~relaysEnabled => (currentFrame = 0 /\ pins = 0)

\* Power was switched off by manualOff while a channel was on.
C3_Witness ==
    /\ ~relaysEnabled
    /\ lastOp.op = "handleOff"
    /\ \E i \in Channels : toggleBy[i] = "forceAllRelaysOff"

\* C4: the interlock is a hysteresis latch over the successful temperature
\* samples: it trips only on a sample >= OVERHEAT_ON_C, clears only on a
\* sample <= OVERHEAT_OFF_C, a sample strictly between leaves it unchanged,
\* and nothing but a sample changes it.
C4_HysteresisLatch ==
    [][ LET sampled == pc = "temp" /\ lastOp'.op = "checkTemperature"
                       /\ lastOp'.due /\ lastOp'.t # NaN
            t == lastOp'.t
        IN /\ (~overheatShutdown /\ overheatShutdown')
                 => (sampled /\ t >= OVERHEAT_ON_C * TempScale)
           /\ (overheatShutdown /\ ~overheatShutdown')
                 => (sampled /\ t <= OVERHEAT_OFF_C * TempScale)
           /\ (sampled /\ t >= OVERHEAT_ON_C * TempScale) => overheatShutdown'
           /\ (sampled /\ t <= OVERHEAT_OFF_C * TempScale) => ~overheatShutdown'
           /\ (sampled /\ t > OVERHEAT_OFF_C * TempScale /\ t < OVERHEAT_ON_C * TempScale)
                 => (overheatShutdown' = overheatShutdown)
      ]_vars

\* A sample between the thresholds was taken while tripped, and it stays tripped.
C4_Witness ==
    /\ lastOp.op = "checkTemperature" /\ lastOp.due
    /\ lastOp.t > OVERHEAT_OFF_C * TempScale /\ lastOp.t < OVERHEAT_ON_C * TempScale
    /\ overheatShutdown

\* C5: power does not resume by itself when the interlock clears: right after
\* the clearing sample relaysEnabled is FALSE and all channels are off, and no
\* channel is energized until, after the clearing, manualOn or toggleAllOn is
\* issued or a schedule evaluation switches power on.
C5_NoAutoResume ==
    /\ (lastOp.op = "checkTemperature" /\ lastOp.cleared)
          => (~relaysEnabled /\ currentFrame = 0)
    /\ resumePending => currentFrame = 0

-----------------------------------------------------------------------------
(* Schedule *)

\* The window of the specification: half-open [on, off) when on <= off,
\* wrapping past midnight otherwise.
WindowActive(on, off, n) ==
    IF on <= off THEN (on <= n /\ n < off) ELSE (n >= on \/ n < off)

\* The same window as a cyclic half-open interval: n is fewer minutes after on
\* than off is.
WindowByOffset(on, off, n) ==
    ((n - on + MINUTES_PER_DAY) % MINUTES_PER_DAY)
        < ((off - on + MINUTES_PER_DAY) % MINUTES_PER_DAY)

\* C6: with wall-clock time available, computeShouldBeOn equals the window
\* function for every on, off and now: on <= now < off when on <= off (never
\* true when on = off), and now >= on or now < off when the window wraps.
C6_WindowFunction ==
    lastOp.op = "computeShouldBeOn" =>
        LET on == on_h * 60 + on_m
            off == off_h * 60 + off_m
        IN /\ lastOp.result = WindowActive(on, off, lastOp.clock)
           /\ lastOp.result = WindowByOffset(on, off, lastOp.clock)
           /\ (on = off) => ~lastOp.result

\* The wrap case on = 22:00, off = 06:00 evaluated at 02:00 gives true.
C6_Witness ==
    /\ lastOp.op = "computeShouldBeOn"
    /\ on_h = 22 /\ on_m = 0 /\ off_h = 6 /\ off_m = 0
    /\ lastOp.clock = 120
    /\ lastOp.result

\* C7: a schedule evaluation made in AUTO mode while wall-clock time is
\* unavailable changes neither power nor outputs: relaysEnabled, allOnMode,
\* currentFrame, patternStart, the pins and the persisted values stay as they
\* were.
C7_NoTimeNoChange ==
    [][ (pc = "sched" /\ lastOp'.op = "scheduleCheck" /\ lastOp'.due
            /\ lastOp'.clock = NoTime)
          => UNCHANGED << relaysEnabled, allOnMode, currentFrame, patternStart,
                          pins, lastChangeMs, alreadyOff, prefs >>
      ]_vars

\* An evaluation without wall-clock time was made with power on and a channel
\* energized.
C7_Witness ==
    /\ lastOp.op = "scheduleCheck" /\ lastOp.due /\ lastOp.clock = NoTime
    /\ relaysEnabled /\ currentFrame # 0

-----------------------------------------------------------------------------
(* Commands *)

\* C8: on return of manualOff the mode is manual, power is off, the All-ON
\* hold is cleared and every channel is off, whatever the dwell timers are.
C8_ManualOff ==
    lastOp.op = "handleOff" =>
        /\ manualOverride /\ ~relaysEnabled /\ ~allOnMode
        /\ currentFrame = 0 /\ pins = 0

\* manualOff switched off a channel that had been switched on less than a
\* dwell before.
C8_Witness ==
    /\ lastOp.op = "handleOff"
    /\ \E i \in Channels :
          /\ toggleBy[i] = "forceAllRelaysOff"
          /\ toggleGap[i] # Never /\ toggleGap[i] < minDwellMs

\* Channel i after applyFrame(0xFF) at time n: on if it was on, or if its dwell
\* has expired.
AllOnRequested(frame, frameAfter, changed, n) ==
    \A i \in Channels :
        IsOn(frameAfter, i) <=> (IsOn(frame, i) \/ Elapsed(n, changed[i]) >= minDwellMs)

\* C9: toggleAllOn with the hold not active and the interlock clear sets
\* manualOverride, relaysEnabled and allOnMode and requests frame 0xFF (every
\* channel whose dwell has expired is on); with the hold active it clears
\* allOnMode and leaves relaysEnabled and manualOverride unchanged.
C9_ToggleAllOn ==
    [][ (pc = "client" /\ lastOp'.op = "handleAllOn") =>
          /\ (~allOnMode /\ ~overheatShutdown) =>
                /\ manualOverride' /\ relaysEnabled' /\ allOnMode'
                /\ AllOnRequested(currentFrame, currentFrame', lastChangeMs, now')
                /\ pins' = currentFrame'
          /\ allOnMode =>
                /\ ~allOnMode'
                /\ relaysEnabled' = relaysEnabled
                /\ manualOverride' = manualOverride
                /\ currentFrame' = currentFrame
      ]_vars

\* toggleAllOn cancelled a hold that had all eight channels on.
C9_Witness ==
    /\ lastOp.op = "handleAllOn" /\ lastOp.held /\ ~lastOp.overheated
    /\ ~allOnMode /\ currentFrame = ALL_ON_FRAME

\* C10: toggleAllOn issued while the interlock is set and the hold is not
\* active is refused: apart from the clock, no variable of the program and no
\* persisted value changes.
C10_AllOnRefused ==
    [][ (pc = "client" /\ lastOp'.op = "handleAllOn" /\ overheatShutdown /\ ~allOnMode)
          => UNCHANGED << allOnMode, relaysEnabled, manualOverride, currentFrame, prefs,
                          pins, lastChangeMs, alreadyOff, enclosureTemp, lastTempReadMs,
                          lastScheduleCheck, currentPattern, patternSpeed, patIndex,
                          lastPatStep, shuffleEnabled, patternHoldMs, patternStart,
                          playOrder, playPos, statics, on_h, on_m, off_h, off_m >>
      ]_vars

\* toggleAllOn was issued in AUTO mode with power off while overheated.
C10_Witness ==
    /\ lastOp.op = "handleAllOn" /\ lastOp.overheated /\ ~lastOp.held
    /\ overheatShutdown /\ ~manualOverride /\ ~relaysEnabled

-----------------------------------------------------------------------------
(* All-ON hold *)

\* C11 as stated: whenever the All-ON hold is active and the interlock is
\* clear, power is on.
C11_HoldImpliesPower ==
    (allOnMode /\ ~overheatShutdown) => relaysEnabled

\* C12 as stated: a loop() stage entered with the All-ON hold active leaves the
\* current pattern, the pattern counters, the play order, the play position
\* and patternStart unchanged, and with power on and the interlock clear it
\* switches no channel off.
C12_HoldFreezesPattern ==
    [][ (pc \in {"temp", "sched", "drive"} /\ allOnMode) =>
          /\ UNCHANGED << currentPattern, patIndex, statics, playPos, playOrder,
                          patternStart, lastPatStep >>
          /\ (relaysEnabled /\ ~overheatShutdown /\ relaysEnabled' /\ ~overheatShutdown')
                => \A i \in Channels : IsOn(pins, i) => IsOn(pins', i)
      ]_vars

\* C13: on return of setPattern the All-ON hold is not active.
C13_PatternCancelsHold ==
    lastOp.op = "handlePattern" => ~allOnMode

\* setPattern was issued while the hold was active.
C13_Witness ==
    lastOp.op = "handlePattern" /\ lastOp.held /\ ~allOnMode

-----------------------------------------------------------------------------
(* Schedule transitions *)

\* C14: a due AUTO schedule evaluation whose result differs from relaysEnabled
\* makes the result the power state; when that is OFF, every channel is off
\* and the All-ON hold is cleared on return; when it is ON, patternStart is the
\* current time.
C14_ScheduleTransition ==
    [][ (/\ pc = "sched" /\ ScheduleDue(St) /\ lastOp'.op = "scheduleCheck"
         /\ computeShouldBeOn(St, lastOp'.clock) # relaysEnabled) =>
          /\ relaysEnabled' = ~relaysEnabled
          /\ ~relaysEnabled' => (currentFrame' = 0 /\ pins' = 0 /\ ~allOnMode')
          /\ relaysEnabled' => (patternStart' = now /\ allOnMode' = allOnMode)
      ]_vars

\* The schedule switched power off while the hold was active, and with it a
\* channel that had been switched on less than a dwell before.
C14_Witness ==
    /\ lastOp.op = "scheduleCheck" /\ lastOp.due /\ lastOp.was /\ lastOp.held
    /\ ~relaysEnabled
    /\ \E i \in Channels :
          /\ toggleBy[i] = "forceAllRelaysOff" /\ lastToggle[i] = now
          /\ toggleGap[i] # Never /\ toggleGap[i] < minDwellMs

-----------------------------------------------------------------------------
(* Pattern stepper *)

\* C15 as stated: two consecutive frame computations of stepPatternIfDue are at
\* least max(patternSpeed, minDwellMs) apart.
C15_StepsClampApart ==
    stepGap # Never => (stepGap >= stepMs /\ stepGap >= minDwellMs)

\* Frames compared after a pattern switch.
FrameSeqLen == 3

\* The patterns whose frames do not depend on random().
DeterministicPatterns == Patterns \ {"RANDOM", "SPARKLE_SPARSE", "RANDOM_BURSTS"}

\* The next k frames stepPatternIfDue computes for pattern p from counters
\* (idx, st).
RECURSIVE FramesFrom(_, _, _, _)
FramesFrom(p, idx, st, k) ==
    IF k = 0 THEN << >>
    ELSE LET r == patternFrame([currentPattern |-> p, patIndex |-> idx,
                                statics |-> st], NoRandom)
         IN << r.frame >> \o FramesFrom(p, r.patIndex, r.st, k - 1)

\* C16 as stated: after setPattern has started a deterministic pattern, the
\* frames it produces are the frames it produces from a fresh boot.
C16_SwitchRestartsSequence ==
    (lastOp.op = "handlePattern" /\ currentPattern \in DeterministicPatterns) =>
        FramesFrom(currentPattern, patIndex, statics, FrameSeqLen)
            = FramesFrom(currentPattern, 0, InitStatics, FrameSeqLen)

-----------------------------------------------------------------------------
(* Playlist rotation *)

\* C17: with shuffle enabled the play order is a permutation of
\* 0 .. playlistLen-1 and playPos is at most playlistLen; the patterns the
\* rotation has started from the current order are pairwise different, and
\* when the order is used up they are all the patterns of the playlist.
C17_ShuffleCycle ==
    shuffleEnabled =>
        /\ { playOrder[i] : i \in 0 .. (playlistLen - 1) } = 0 .. (playlistLen - 1)
        /\ playPos <= playlistLen
        /\ Len(cycle) = playPos
        /\ \A i, j \in 1 .. Len(cycle) : i # j => cycle[i] # cycle[j]
        /\ playPos = playlistLen =>
              { cycle[i] : i \in 1 .. Len(cycle) }
                  = { playlist[k] : k \in 1 .. playlistLen }

\* In a run with a /setshuffle request, a play order has been used up by
\* playlistLen rotations.
C17_Witness ==
    /\ shuffleEnabled /\ cmds > 0 /\ prefs.shuffle
    /\ Len(cycle) = playlistLen /\ playPos = playlistLen

\* C18: a loop() stage changes currentPattern only if it is the rotation of
\* the drive stage with shuffle enabled, power on, the All-ON hold not active
\* and patternHoldMs elapsed since patternStart; setShuffle leaves
\* currentPattern as it is.
C18_RotationGuard ==
    [][ /\ (pc \in {"temp", "sched", "drive"} /\ currentPattern' # currentPattern) =>
              /\ pc = "drive"
              /\ shuffleEnabled /\ relaysEnabled /\ ~allOnMode
              /\ Elapsed(now, patternStart) >= patternHoldMs
        /\ (pc = "client" /\ lastOp'.op = "handleSetShuffle") =>
              currentPattern' = currentPattern
      ]_vars

\* Shuffle was disabled by setShuffle, and a drive stage with power on, no
\* hold and the hold time elapsed stepped the pattern without rotating.
C18_Witness ==
    /\ lastOp.op = "driveRelays" /\ ~lastOp.rotated
    /\ ~shuffleEnabled /\ ~prefs.shuffle /\ patternStart > 2000
    /\ relaysEnabled /\ ~allOnMode /\ ~overheatShutdown
    /\ Elapsed(now, patternStart) >= patternHoldMs
    /\ stepAt = now

-----------------------------------------------------------------------------
(* Pattern speed *)

\* v clamped into [minDwellMs, SPEED_MAX_MS].
SpeedClamp(v) ==
    IF v <= minDwellMs THEN minDwellMs
    ELSE IF v >= SPEED_MAX_MS THEN SPEED_MAX_MS ELSE v

\* C20: setSpeed(v) sets patternSpeed to v clamped into [200, 2000]; nothing
\* else changes patternSpeed, and getStatus reports patternSpeed as speed_ms.
C20_SetSpeedClamps ==
    [][ /\ (pc = "client" /\ lastOp'.op = "handleSetSpeed") =>
              /\ patternSpeed' = SpeedClamp(toInt(lastOp'.arg))
              /\ patternSpeed' >= minDwellMs /\ patternSpeed' <= SPEED_MAX_MS
        /\ lastOp'.op # "handleSetSpeed" => patternSpeed' = patternSpeed
        /\ lastOp'.op = "handleStatusJSON" => lastOp'.reply.speed_ms = patternSpeed
      ]_vars

\* getStatus reports 200 after a setSpeed below the minimum dwell (no
\* persisted speed is 200).
C20_Witness ==
    /\ lastOp.op = "handleStatusJSON"
    /\ lastOp.reply.speed_ms = minDwellMs
    /\ prefs.speed = minDwellMs

-----------------------------------------------------------------------------
(* Sunset fetch *)

\* C19 as stated: a failed call of updateSunsetTime(), in setup() or in
\* loop(), leaves the ON time unchanged, and the next call is made in the
\* first loop() iteration entered more than SUNSET_RETRY_MS after it, and
\* not before.
C19_FailedFetchRetriesEarly ==
    [][ /\ (fetchAt' # fetchAt /\ fetchFailed') => (on_h' = on_h /\ on_m' = on_m)
        /\ (sunsetEnabled /\ fetchFailed /\ now' # now) =>
              (fetchAt' # fetchAt <=> Elapsed(now', fetchAt) > SUNSET_RETRY_MS)
      ]_vars

\* The same for the calls of loop() alone (fetchAt > 2000: the failed call was
\* made after setup()): these are retried SUNSET_RETRY_MS later.
LoopFetchRetriesEarly ==
    [][ /\ (fetchAt' # fetchAt /\ fetchFailed') => (on_h' = on_h /\ on_m' = on_m)
        /\ (sunsetEnabled /\ fetchFailed /\ now' # now /\ fetchAt > 2000) =>
              (fetchAt' # fetchAt <=> Elapsed(now', fetchAt) > SUNSET_RETRY_MS)
      ]_vars

-----------------------------------------------------------------------------
(* Input validation *)

\* C21 as stated: setPattern with a name that is not a pattern name changes
\* none of currentPattern, allOnMode, patIndex, lastPatStep and patternStart.
C21_UnknownPatternRejected ==
    [][ (pc = "client" /\ lastOp'.op = "handlePattern"
         /\ UpperCase(lastOp'.name) \notin Patterns) =>
            UNCHANGED << currentPattern, allOnMode, patIndex, lastPatStep,
                         patternStart >>
      ]_vars

\* The arguments of TimeStrs that fail validation: no colon, hour > 23,
\* minute > 59, negative hour.
RejectedTimeStrs ==
    { <<"2", "4", ":", "0", "0">>,
      <<"1", "2", ":", "6", "0">>,
      <<"-", "1", ":", "3", "0">>,
      <<"1", "8", "3", "0">>,
      << >>,
      <<"7", ":", "6", "1">>,
      <<"0", "7", "0", "5">> }

\* C22: from the default schedule, through setSchedule requests with valid and
\* invalid strings and through sunset updates, the hours stay in 0..23 and the
\* minutes in 0..59; an argument that fails validation leaves its field (state
\* and stored value) unchanged.
C22_ScheduleInRange ==
    /\ [](on_h \in 0 .. 23 /\ off_h \in 0 .. 23 /\ on_m \in 0 .. 59 /\ off_m \in 0 .. 59)
    /\ [][ (pc = "client" /\ lastOp'.op = "handleSetSchedule") =>
             /\ lastOp'.on \in RejectedTimeStrs =>
                  /\ UNCHANGED << on_h, on_m >>
                  /\ prefs'.on_h = prefs.on_h /\ prefs'.on_m = prefs.on_m
             /\ lastOp'.off \in RejectedTimeStrs =>
                  /\ UNCHANGED << off_h, off_m >>
                  /\ prefs'.off_h = prefs.off_h /\ prefs'.off_m = prefs.off_m
         ]_vars

\* A request whose on argument has minute 60 and whose off argument is valid
\* has been handled after a sunset update moved the ON time.
C22_Witness ==
    /\ lastOp.op = "handleSetSchedule"
    /\ lastOp.on = <<"1", "2", ":", "6", "0">>
    /\ lastOp.off = <<"2", "3", ":", "5", "9">>
    /\ off_h = 23 /\ off_m = 59
    /\ on_h = 17 /\ on_m = 30
    /\ lastSunsetUpdate > 0
    /\ cmds = 2

-----------------------------------------------------------------------------
(* Stores to persistent storage *)

\* The action that led to this state issued a store of the value the key
\* already held.
StoredUnchanged ==
    /\ "puts" \in DOMAIN lastOp
    /\ \E i \in 1 .. Len(lastOp.puts) : lastOp.puts[i].same

\* C23 as stated: no handler and no tick of loop() stores, under any key, the
\* value that key already holds.
C23_NoUnchangedStore == ~StoredUnchanged

-----------------------------------------------------------------------------
(* The relay primitives *)

\* C24: setRelaySafe(idx, wantOn) with idx out of range, with the effective
\* request (wantOn forced to off by the interlock or by power off) equal to
\* the channel's state, or within the dwell time of the channel's last change,
\* leaves currentFrame, every timestamp, every pin and all other state as they
\* were; otherwise it sets the channel's bit and pin to the effective request
\* and its timestamp to now, and leaves the other channels alone.
C24_SetRelaySafeFrame ==
    [][ lastOp'.op = "setRelaySafe" =>
          LET idx == lastOp'.idx
              effective == lastOp'.wantOn /\ ~overheatShutdown /\ relaysEnabled
          IN  IF idx \notin Channels
                 \/ effective = IsOn(currentFrame, idx)
                 \/ Elapsed(now', lastChangeMs[idx]) < minDwellMs
              THEN UNCHANGED << currentFrame, lastChangeMs, pins, relaysEnabled,
                                overheatShutdown, alreadyOff, allOnMode,
                                manualOverride, prefs, patIndex, lastPatStep,
                                patternStart, statics >>
              ELSE /\ IsOn(currentFrame', idx) = effective
                   /\ IsOn(pins', idx) = effective
                   /\ lastChangeMs'[idx] = now'
                   /\ \A j \in Channels \ {idx} :
                        /\ Bit(currentFrame', j) = Bit(currentFrame, j)
                        /\ Bit(pins', j) = Bit(pins, j)
                        /\ lastChangeMs'[j] = lastChangeMs[j]
      ]_vars

\* A switch-on of the last channel was suppressed by dwell: the channel is off
\* and its timestamp is that of the forced switch-off 50 ms earlier.
C24_Witness ==
    /\ lastOp.op = "setRelaySafe"
    /\ lastOp.result = -1
    /\ lastOp.idx = NUM_RELAYS - 1
    /\ lastOp.wantOn
    /\ relaysEnabled /\ ~overheatShutdown
    /\ ~IsOn(pins, NUM_RELAYS - 1)
    /\ Elapsed(now, lastChangeMs[NUM_RELAYS - 1]) = 50

\* C25: forceAllRelaysOff leaves currentFrame = 0 and all pins off and sets
\* every channel's timestamp to now, whatever the state and however recently a
\* channel was switched on; and a channel whose timestamp is less than
\* minDwell old is never switched on.
C25_ForceOffUnconditional ==
    [][ /\ lastOp'.op = "forceAllRelaysOff" =>
              /\ currentFrame' = 0
              /\ pins' = 0
              /\ \A i \in Channels : lastChangeMs'[i] = now'
        /\ \A i \in Channels :
              (~IsOn(pins, i) /\ IsOn(pins', i)) =>
                  Elapsed(now', lastChangeMs[i]) >= minDwellMs
      ]_vars

\* forceAllRelaysOff ran 50 ms after channel 0 was switched on.
C25_Witness ==
    /\ lastOp.op = "forceAllRelaysOff"
    /\ IsOn(lastOp.frame, 0)
    /\ lastOp.sinceChange[0] = 50
    /\ toggleBy[0] = "forceAllRelaysOff"
    /\ toggleGap[0] = 50
    /\ pins = 0

-----------------------------------------------------------------------------
(* Pattern frame sequences *)

\* The pattern of this run has just made a step.
Stepped(p) == currentPattern = p /\ lastOp.op = "stepPatternIfDue"

\* C26 as stated: from the fresh state BLOCK_WIPE produces 0x00, 0x01, 0x03,
\* ..., 0xFF, 0x00: the k-th frame (the first is k = 0) has the low k mod 9
\* bits set.
C26_BlockWipeFromEmpty ==
    Stepped("BLOCK_WIPE") => lastOp.frame = LowMask(lastOp.k % 9)

\* C27 as stated: every WAVE frame is 2^(level+1) - 1 for a level in 0..7, so
\* it is never empty and has bit 0 lit.
C27_WaveNeverEmpty ==
    Stepped("WAVE") => lastOp.frame \in { LowMask(level + 1) : level \in 0 .. 7 }

\* C28 as stated: OVERLAP_WAVE has period 17; steps 0..8 show the low 0..8
\* bits, steps 9..16 take one bit per step off the high end of the lit block
\* until it is empty.
C28_OverlapShrinksFromHigh ==
    Stepped("OVERLAP_WAVE") =>
        LET j == lastOp.k % 17
        IN  lastOp.frame = IF j <= 8 THEN LowMask(j) ELSE LowMask(16 - j)

\* The index of PAIR_PINGPONG's pair at step k: 0 up to 6 and back.
PingPong(k) == LET r == k % 12 IN IF r <= 6 THEN r ELSE 12 - r

\* C29: every PAIR_PINGPONG frame has exactly the two adjacent bits i, i+1,
\* with i in 0..6 moving by one per step, up to 6 and back down to 0.
C29_PairPingPong ==
    Stepped("PAIR_PINGPONG") =>
        /\ PingPong(lastOp.k) \in 0 .. 6
        /\ lastOp.frame = 2^PingPong(lastOp.k) + 2^(PingPong(lastOp.k) + 1)
        /\ popcount8(lastOp.frame) = 2
        /\ currentFrame = lastOp.frame

\* The pair has gone up to 6, back to 0 and up again to 1: bits 1 and 2.
C29_Witness ==
    /\ Stepped("PAIR_PINGPONG")
    /\ lastOp.k = 13
    /\ lastOp.frame = 6
    /\ pins = 6

\* C30: every SPARKLE_SPARSE frame has at most 3 bits lit, whatever the
\* draws, and so has the mask kept for the next step.
C30_SparkleAtMost3 ==
    Stepped("SPARKLE_SPARSE") =>
        /\ popcount8(lastOp.frame) <= 3
        /\ popcount8(statics.sparkleMask) <= 3
        /\ popcount8(currentFrame) <= 3

\* The two toggles of a step lit 5 bits and the strip loop cleared the two
\* lowest of them.
C30_Witness ==
    /\ Stepped("SPARKLE_SPARSE")
    /\ lastOp.toggled = 5
    /\ popcount8(lastOp.frame) = 3
    /\ statics.sparkleMask = lastOp.frame
    /\ ~IsOn(lastOp.frame, 0)

\* C31 as stated: every RANDOM_BURSTS frame is empty or has 2 to 5 bits lit,
\* and a burst's mask is output for 3 to 6 consecutive steps, the step that
\* started it included, before the next random decision.
C31_BurstHeld3To6 ==
    Stepped("RANDOM_BURSTS") =>
        /\ lastOp.frame = 0 \/ popcount8(lastOp.frame) \in 2 .. 5
        /\ lastOp.run <= 6
        /\ lastOp.ended = 0 \/ lastOp.ended \in 3 .. 6

-----------------------------------------------------------------------------
(* Handlers and ticks *)

\* The labels of the request handlers.
HandlerOps ==
    {"handleOn", "handleOff", "handleAuto", "handleAllOn", "handlePattern",
     "handleSetShuffle", "handleSetSpeed", "handleSetSchedule", "handleStatusJSON"}

\* The step is server.handleClient() running a handler or finding no request.
ClientStep == pc = "client" /\ pc' = "temp"

\* C32 as stated: no handler changes currentFrame or the pins; handlers run
\* only at server.handleClient(), never inside a later stage of loop().
C32_HandlersLeaveOutputs ==
    [][ /\ ClientStep => UNCHANGED << currentFrame, pins >>
        /\ pc # "client" => lastOp'.op \notin HandlerOps
      ]_vars

\* C32 amended: a handler changes currentFrame or the pins only when it is
\* manualOff, which forces every channel off, or toggleAllOn entering the
\* hold, which applies 0xFF through setRelaySafe and so only switches channels
\* on; every other handler leaves the outputs alone.  Handlers run only at
\* server.handleClient().
C32_OnlyOffAndAllOnDrive ==
    [][ /\ ClientStep =>
            \/ UNCHANGED << currentFrame, pins >>
            \/ /\ lastOp'.op = "handleOff"
               /\ currentFrame' = 0 /\ pins' = 0
            \/ /\ lastOp'.op = "handleAllOn"
               /\ ~allOnMode /\ allOnMode'
               /\ \A i \in Channels :
                     /\ IsOn(currentFrame, i) => IsOn(currentFrame', i)
                     /\ IsOn(pins, i) => IsOn(pins', i)
        /\ pc # "client" => lastOp'.op \notin HandlerOps
      ]_vars

\* toggleAllOn has switched a channel on inside the handler, before any later
\* stage of loop() ran.
C32_Witness ==
    /\ pc = "temp"
    /\ lastOp.op = "handleAllOn"
    /\ allOnMode
    /\ \E i \in Channels :
          /\ toggleBy[i] = "setRelaySafe"
          /\ lastToggle[i] = now
          /\ IsOn(pins, i)

-----------------------------------------------------------------------------
(* Due checks and elapsed time *)

\* C33 as stated, for the pattern step: when stepPatternIfDue runs (power on,
\* interlock clear, no All-ON hold) it makes a step exactly when the time
\* since the previous step, stepAt, is at least the step time.
C33_StepDueOnElapsed ==
    [][ (pc = "drive" /\ relaysEnabled /\ ~overheatShutdown /\ ~allOnMode
         /\ stepAt # Never) =>
            ((stepAt' = now') <=> (Elapsed(now', stepAt) >= StepMs(St)))
      ]_vars

-----------------------------------------------------------------------------
(* Status *)

\* C34 as stated: whenever a status request can be served (loop() is at
\* server.handleClient()), the status document does not report relays enabled
\* while the overheat interlock is set.
C34_StatusTruthful ==
    (pc = "client" /\ handleStatusJSON(St).relays_enabled) => ~overheatShutdown

-----------------------------------------------------------------------------
(* Temperature sampling *)

\* C35: a due temperature read that fails (NaN) changes none of
\* overheatShutdown, relaysEnabled, currentFrame, the pins and the last known
\* temperature; and the sensor is read only when at least 60000 ms have
\* passed since the previous read.
C35_FailedReadIgnored ==
    [][ /\ (pc = "temp" /\ lastOp'.op = "checkTemperature"
            /\ lastOp'.due /\ lastOp'.t = NaN) =>
               /\ UNCHANGED << overheatShutdown, relaysEnabled, currentFrame,
                               pins, enclosureTemp >>
               /\ lastTempReadMs' = now'
        /\ lastTempReadMs' # lastTempReadMs =>
               Elapsed(now', lastTempReadMs) >= TEMP_READ_INTERVAL_MS
      ]_vars

\* The interlock was set by a reading of 50.0 C and the read one interval
\* later has failed: the interlock and the reading are still there.
C35_Witness ==
    /\ pc = "sched"
    /\ lastOp.op = "checkTemperature" /\ lastOp.due /\ lastOp.t = NaN
    /\ overheatShutdown
    /\ enclosureTemp = OVERHEAT_ON_C * TempScale
    /\ lastTempReadMs = now

-----------------------------------------------------------------------------
(* Loops inside a tick *)

\* C36 as stated, for the bit-fill loop of RANDOM_BURSTS: whatever bits
\* random(0,8) gives, a loop that has been entered reaches the failure of its
\* condition, mask holding count bits.
C36_FillLoopEnds == (pc = "fill") ~> FillDone

-----------------------------------------------------------------------------
(* The All-ON hold *)

\* The All-ON hold is active with power on and the interlock clear.
HoldActive == allOnMode /\ relaysEnabled /\ ~overheatShutdown

\* loop() has returned.
TickDone == pc = "client" /\ lastOp.op # "setup"

\* C37: when an iteration of loop() ends with the hold active, every channel
\* is on or was switched less than minDwellMs ago; an iteration that starts
\* with the hold active, at least minDwellMs after the state before it, and
\* leaves it active ends with all channels on; and once all channels are on
\* they stay on for as long as the hold stays active.
C37_HoldReachesAllOn ==
    [][ /\ (TickDone' /\ HoldActive') =>
              \A i \in Channels :
                  \/ IsOn(currentFrame', i)
                  \/ Elapsed(now', lastChangeMs'[i]) < minDwellMs
        /\ (HoldActive /\ HoldActive' /\ TickDone'
            /\ Elapsed(now', now) >= minDwellMs) =>
              (currentFrame' = ALL_ON_FRAME /\ pins' = ALL_ON_FRAME)
        /\ (HoldActive /\ HoldActive' /\ currentFrame = ALL_ON_FRAME) =>
              (currentFrame' = ALL_ON_FRAME /\ pins' = ALL_ON_FRAME)
      ]_vars

\* The hold was entered with channels inside their dwell time, and an
\* iteration of loop() without a request has now switched the last of them
\* on.
C37_Witness ==
    /\ TickDone /\ HoldActive
    /\ lastOp.op = "loop"
    /\ currentFrame = ALL_ON_FRAME
    /\ \E i \in Channels :
          /\ toggleBy[i] = "setRelaySafe"
          /\ lastToggle[i] = now

-----------------------------------------------------------------------------
(* AUTO mode *)

\* C38: when loop() reaches the schedule block in AUTO more than 1000 ms
\* after the previous evaluation, it evaluates the schedule (the evaluation
\* time becomes now) and, the wall clock being known, relaysEnabled is then
\* what computeShouldBeOn gives for that clock; otherwise the block changes
\* neither the evaluation time nor relaysEnabled.
C38_AutoFollowsSchedule ==
    [][ pc = "sched" =>
          IF ~manualOverride /\ Elapsed(now, lastScheduleCheck) > SCHEDULE_CHECK_MS
          THEN /\ lastScheduleCheck' = now
               /\ lastOp'.clock # NoTime =>
                     (relaysEnabled' <=> computeShouldBeOn(St, lastOp'.clock))
          ELSE UNCHANGED << lastScheduleCheck, relaysEnabled >>
      ]_vars

\* After a request (auto), the evaluation at 18:00 found power off and
\* switched it on.
C38_Witness ==
    /\ pc = "drive"
    /\ lastOp.op = "scheduleCheck" /\ lastOp.due
    /\ lastOp.clock = 1080
    /\ ~lastOp.was /\ relaysEnabled
    /\ ~manualOverride /\ ~prefs.manualOverride
    /\ cmds > 0
    /\ lastScheduleCheck = now

-----------------------------------------------------------------------------
(* MANUAL mode *)

\* The requests that assign relaysEnabled.
PowerCommands == {"handleOn", "handleOff", "handleAllOn"}

\* C39: in MANUAL mode the schedule block of loop() changes nothing, and
\* relaysEnabled changes only in the handler of manualOn, manualOff or
\* toggleAllOn, or when checkTemperatureAndProtect sets the interlock and
\* takes power off.
C39_ManualIgnoresSchedule ==
    [][ manualOverride =>
          /\ pc = "sched" =>
                UNCHANGED << relaysEnabled, lastScheduleCheck, allOnMode,
                             alreadyOff, patternStart, currentFrame, pins, prefs >>
          /\ relaysEnabled' # relaysEnabled =>
                \/ pc = "client" /\ lastOp'.op \in PowerCommands
                \/ /\ pc = "temp"
                   /\ ~overheatShutdown /\ overheatShutdown'
                   /\ ~relaysEnabled'
      ]_vars

\* MANUAL_OFF, more than 1000 ms after the last evaluation: loop() has passed
\* the schedule block and power is still off.
C39_Witness ==
    /\ pc = "drive"
    /\ lastOp.op = "scheduleCheck" /\ ~lastOp.due
    /\ manualOverride /\ ~relaysEnabled
    /\ cmds > 0
    /\ Elapsed(now, lastScheduleCheck) > SCHEDULE_CHECK_MS

-----------------------------------------------------------------------------
(* Pattern steps and dwell *)

\* loop() has returned after a due pattern step, made with power on, the
\* interlock clear and no All-ON hold.
StepMade == pc = "client" /\ lastOp.op = "driveRelays" /\ lastOp.frame # NoFrame

\* C40 as stated: after every due pattern step currentFrame is the frame the
\* step computed.
C40_StepFrameApplied == StepMade => currentFrame = lastOp.frame

\* C40 amended: after every due pattern step, a channel differs from its bit
\* of the computed frame only while it is inside its dwell time (its last
\* change is less than minDwellMs old); the pins show currentFrame.
C40_StepFrameAppliedOutsideDwell ==
    StepMade =>
        /\ \A i \in Channels :
              \/ IsOn(currentFrame, i) <=> IsOn(lastOp.frame, i)
              \/ Elapsed(now, lastChangeMs[i]) < minDwellMs
        /\ pins = currentFrame

\* A due step wanted a channel on that had been switched off less than
\* minDwellMs before: the channel is still off.
C40_Witness ==
    /\ StepMade
    /\ relaysEnabled /\ ~overheatShutdown /\ ~allOnMode
    /\ stepAt = now
    /\ \E i \in Channels :
          /\ IsOn(lastOp.frame, i) /\ ~IsOn(currentFrame, i)
          /\ Elapsed(now, lastChangeMs[i]) < minDwellMs

====
